---- MODULE Spec2Model ----
(***************************************************************************)
(* Model of the recommendation backend: RecommendationsService             *)
(* (computeRecommendations and its helpers), the vector utilities, the     *)
(* embedding generator's observable outcomes, and the storage writers      *)
(* (InteractionsService.upsertInteraction, UsersService.updateTraits)      *)
(* that run beside it.                                                     *)
(*                                                                         *)
(* Numbers.  Trait scalars are integers 0..5.  Weights are held in tenths  *)
(* (0.5 is 5).  A normalized weight and a finalScore are exact fractions   *)
(* [num, den].  A cosine similarity is held in fixed point, in units of    *)
(* 1/Scale, rounded down.  normalizeVector's result is the exact rational  *)
(* vector [num, den] (every component over the common maximum).            *)
(*                                                                         *)
(* Where the rounding or the range of the program's numbers decides, the   *)
(* vector utilities and the behaviour score are also modelled over IEEE    *)
(* 754 doubles (the F64 definitions), and called on their own under        *)
(* VectorSpec.                                                             *)
(*                                                                         *)
(* Further specifications.  EndpointSpec adds the controllers' answers     *)
(* (resp); ConcurrentSpec runs a second computeRecommendations call (req2) *)
(* beside the first; UsersSpec runs UsersService.create, updateTraits and  *)
(* updateBehaviorPreferences await by await (ops).                         *)
(***************************************************************************)
EXTENDS Integers, Sequences, FiniteSets, TLC

VARIABLES users, vendors, interactions, req, prev, writes, calc, req2, ops, resp

vars == <<users, vendors, interactions, req, prev, writes, calc, req2, ops, resp>>

storage == <<users, vendors, interactions>>

(***************************************************************************)
(* Bounds of the model                                                     *)
(***************************************************************************)
\* storage writes (upserts, trait updates) explored in one behaviour
MaxWrites == 1
\* fixed-point resolution of a similarity score: 1.0 is Scale
Scale == 1000

(***************************************************************************)
(* Program constants                                                       *)
(***************************************************************************)
\* defaultWeights, in tenths
DefaultEmbeddingWeight == 5
DefaultTraitsWeight == 3
DefaultBehaviorWeight == 2
\* z.number().min(0).max(5) of a trait override
MinTrait == 0
MaxTrait == 5
\* z.number().min(0).max(1) of a weight override, in tenths
MinWeight == 0
MaxWeight == 10
\* the `|| 1` fallback divisor of weightSum, in tenths
FallbackWeightSum == 10
\* 0.6 * directScore + 0.4 * similarityAggregate, in tenths
DirectShare == 6
SimilarityShare == 4

Null == "null"

TraitKeys ==
  <<"Adventurous", "Decisive", "Eccentric", "Flexible", "Loyal",
    "Optimistic", "Patient", "Perfectionist", "Punctual">>

WeightKeys == {"embeddingWeight", "traitWeight", "behaviorWeight"}

SchemaKeys ==
  {TraitKeys[i] : i \in 1..Len(TraitKeys)} \cup WeightKeys \cup {"behaviorPreferences"}

(***************************************************************************)
(* Sequence helpers                                                        *)
(***************************************************************************)
RECURSIVE SumSeq(_)
SumSeq(s) == IF s = <<>> THEN 0 ELSE Head(s) + SumSeq(Tail(s))

RECURSIVE MaxSeq(_)
MaxSeq(s) ==
  IF Len(s) = 1 THEN s[1]
  ELSE LET m == MaxSeq(Tail(s)) IN IF s[1] > m THEN s[1] ELSE m

RECURSIVE ISqrtBetween(_, _, _)
ISqrtBetween(n, lo, hi) ==
  IF lo >= hi THEN lo
  ELSE LET mid == (lo + hi + 1) \div 2
       IN IF mid * mid <= n THEN ISqrtBetween(n, mid, hi)
          ELSE ISqrtBetween(n, lo, mid - 1)

\* floor of the square root; 46340 is the largest root whose square is a 32-bit int
ISqrt(n) == ISqrtBetween(n, 0, IF n < 46340 THEN n ELSE 46340)

(***************************************************************************)
(* src/common/vector.utils.ts                                              *)
(***************************************************************************)
Dot(a, b) == SumSeq([i \in 1..Len(a) |-> a[i] * b[i]])

\* cosineSimilarity over integer vectors, in units of 1/Scale
cosineSimilarity(a, b) ==
  IF Len(a) = 0 \/ Len(b) = 0 \/ Len(a) # Len(b) THEN 0
  ELSE LET dot == Dot(a, b)
           normA == Dot(a, a)
           normB == Dot(b, b)
       IN IF normA = 0 \/ normB = 0 THEN 0
          ELSE (dot * 100 * Scale) \div ISqrt(normA * normB * 10000)

\* normalizeVector: every component over the maximum, as [num, den]
normalizeVector(values) ==
  LET max == MaxSeq(values)
  IN IF max = 0 THEN [num |-> [i \in 1..Len(values) |-> 0], den |-> 1]
     ELSE [num |-> values, den |-> max]

\* cosineSimilarity of two normalizeVector results: the positive common
\* denominators cancel in dot / (sqrt(normA) * sqrt(normB))
cosineSimilarityNormalized(u, v) == cosineSimilarity(u.num, v.num)

(***************************************************************************)
(* Natural numbers of any size                                             *)
(*                                                                         *)
(* A double's significand has 53 bits and a product of two has 106, more   *)
(* than a machine integer of the model holds.  A big natural is the        *)
(* sequence of its limbs, least significant first, without a leading zero  *)
(* limb; <<>> is 0.  A value used more than once is an operator's          *)
(* parameter, so that it is computed once.                                 *)
(***************************************************************************)
LimbBits == 15
Limb == 2^LimbBits

MinInt(x, y) == IF x < y THEN x ELSE y

RECURSIVE BTrim(_)
BTrim(a) ==
  IF a = <<>> \/ a[Len(a)] # 0 THEN a ELSE BTrim(SubSeq(a, 1, Len(a) - 1))

\* the big natural of a machine integer n >= 0
BOfInt(n) ==
  BTrim(<<n % Limb, (n \div Limb) % Limb, n \div (Limb * Limb)>>)

BOne == <<1>>

\* the limb i of a, 0 beyond its length
BLimb(a, i) == IF i <= Len(a) THEN a[i] ELSE 0

\* the limbs of a + b + c from limb i on, c the carry into limb i
RECURSIVE BAddFrom(_, _, _, _)
BAddFrom(a, b, i, c) ==
  IF i > Len(a) /\ i > Len(b) THEN (IF c = 0 THEN <<>> ELSE <<c>>)
  ELSE <<(BLimb(a, i) + BLimb(b, i) + c) % Limb>>
       \o BAddFrom(a, b, i + 1, (BLimb(a, i) + BLimb(b, i) + c) \div Limb)

BAdd(a, b) == BAddFrom(a, b, 1, 0)

\* the limbs of a - b - c from limb i on, c the borrow out of limb i
RECURSIVE BSubFrom(_, _, _, _)
BSubFrom(a, b, i, c) ==
  IF i > Len(a) THEN <<>>
  ELSE <<(a[i] - BLimb(b, i) - c) % Limb>>
       \o BSubFrom(a, b, i + 1, IF a[i] - BLimb(b, i) - c < 0 THEN 1 ELSE 0)

\* a - b, for a >= b
BSub(a, b) == BTrim(BSubFrom(a, b, 1, 0))

\* the most significant limb in which a and b of one length differ
BTopDifference(a, b) ==
  CHOOSE i \in 1..Len(a) : a[i] # b[i] /\ \A j \in (i + 1)..Len(a) : a[j] = b[j]

\* 1, 0 or -1 as a is greater than, equal to or less than b
BCmp(a, b) ==
  IF Len(a) # Len(b) THEN (IF Len(a) > Len(b) THEN 1 ELSE -1)
  ELSE IF a = b THEN 0
  ELSE IF a[BTopDifference(a, b)] > b[BTopDifference(a, b)] THEN 1 ELSE -1

\* the limbs of a * k + c from limb i on, c the carry into limb i
RECURSIVE BMulSmallFrom(_, _, _, _)
BMulSmallFrom(a, k, i, c) ==
  IF i > Len(a) THEN (IF c = 0 THEN <<>> ELSE <<c>>)
  ELSE <<(a[i] * k + c) % Limb>> \o BMulSmallFrom(a, k, i + 1, (a[i] * k + c) \div Limb)

\* a * k, for 0 <= k < Limb
BMulSmall(a, k) == IF k = 0 THEN <<>> ELSE BMulSmallFrom(a, k, 1, 0)

\* a * Limb^n
BShiftLimbs(a, n) == IF a = <<>> THEN <<>> ELSE [i \in 1..n |-> 0] \o a

\* a * (the limbs i.. of b)
RECURSIVE BMulFrom(_, _, _)
BMulFrom(a, b, i) ==
  IF i > Len(b) THEN <<>>
  ELSE BAdd(BMulSmall(a, b[i]), BShiftLimbs(BMulFrom(a, b, i + 1), 1))

BMul(a, b) == IF a = <<>> THEN <<>> ELSE BMulFrom(a, b, 1)

\* a * 2^n
BShl(a, n) == BShiftLimbs(BMulSmall(a, 2^(n % LimbBits)), n \div LimbBits)

\* floor(d / 2^r), for r < LimbBits
BShrBits(d, r) ==
  BTrim([i \in 1..Len(d) |->
           (d[i] \div 2^r) + (BLimb(d, i + 1) % 2^r) * 2^(LimbBits - r)])

\* floor(a / 2^n)
BShr(a, n) ==
  IF Len(a) <= n \div LimbBits THEN <<>>
  ELSE BShrBits(SubSeq(a, n \div LimbBits + 1, Len(a)), n % LimbBits)

\* the number of bits of a: 0 for 0
BBits(a) ==
  IF a = <<>> THEN 0
  ELSE LimbBits * (Len(a) - 1)
       + (CHOOSE k \in 1..LimbBits : 2^(k - 1) <= a[Len(a)] /\ a[Len(a)] < 2^k)

\* bit i of a, bit 0 the least significant
BBit(a, i) == (BLimb(a, i \div LimbBits + 1) \div 2^(i % LimbBits)) % 2

\* the machine integer of a, for a < 2^31
BToInt(a) == BLimb(a, 1) + BLimb(a, 2) * Limb + BLimb(a, 3) * Limb * Limb

\* floor(r / b) for r < b * Limb, which is top or just below it
BDivDigitFrom(r, b, top) ==
  CHOOSE d \in (IF top > 2 THEN top - 2 ELSE 0)..top :
    /\ BCmp(BMulSmall(b, d), r) <= 0
    /\ d = top \/ BCmp(BMulSmall(b, d + 1), r) > 0

\* floor(r / b) for r < b * Limb: the quotient of the leading bits of r and
\* the LimbBits leading bits of b (t bits aside) is at most 2 above it
BDivDigitAside(r, b, t) ==
  BDivDigitFrom(r, b, MinInt(BToInt(BShr(r, t)) \div BToInt(BShr(b, t)), Limb - 1))

BDivDigit(r, b) ==
  BDivDigitAside(r, b, IF BBits(b) > LimbBits THEN BBits(b) - LimbBits ELSE 0)

\* long division, one limb of a after the other from limb n down, q the
\* quotient and r the remainder so far: <<the quotient, the remainder>>
RECURSIVE BDivModLimbs(_, _, _, _, _)
RECURSIVE BDivModDigit(_, _, _, _, _, _)
BDivModDigit(a, b, n, q, r, d) ==
  IF d = 0 THEN BDivModLimbs(a, b, n - 1, <<0>> \o q, r)
  ELSE BDivModLimbs(a, b, n - 1, <<d>> \o q, BSub(r, BMulSmall(b, d)))

BDivModBringDown(a, b, n, q, r) == BDivModDigit(a, b, n, q, r, BDivDigit(r, b))

BDivModLimbs(a, b, n, q, r) ==
  IF n < 1 THEN <<BTrim(q), r>>
  ELSE BDivModBringDown(a, b, n, q, BAdd(BShiftLimbs(r, 1), BOfInt(a[n])))

\* <<floor(a / b), a mod b>>, for b > 0
BDivMod(a, b) == BDivModLimbs(a, b, Len(a), <<>>, <<>>)

\* Newton's iteration from x >= sqrt(a) down to floor(sqrt(a))
RECURSIVE BSqrtNewton(_, _)
BSqrtNewtonStep(a, x, y) == IF BCmp(y, x) >= 0 THEN x ELSE BSqrtNewton(a, y)

BSqrtNewton(a, x) == BSqrtNewtonStep(a, x, BShr(BAdd(x, BDivMod(a, x)[1]), 1))

\* a start for Newton's iteration: the root of the leading bits of a (t bits
\* aside, t even), rounded up
BSqrtStartAside(a, t) == BShl(BOfInt(ISqrt(BToInt(BShr(a, t))) + 1), t \div 2)

BSqrtStart(a) ==
  BSqrtStartAside(a, IF BBits(a) > 2 * LimbBits
                     THEN 2 * ((BBits(a) - 2 * LimbBits + 1) \div 2) ELSE 0)

\* the largest r with r * r <= a
BSqrt(a) == IF a = <<>> THEN <<>> ELSE BSqrtNewton(a, BSqrtStart(a))

(***************************************************************************)
(* The number type: IEEE 754 binary64, round to nearest, ties to even      *)
(*                                                                         *)
(* A double is [k, s, m, e]: k is "num" (finite), "inf" or "nan"; s is     *)
(* the sign, 1 or -1; a finite double is s * m * 2^e with the big natural  *)
(* m below 2^53 and e >= -1074, and with m >= 2^52 unless e = -1074 (a     *)
(* subnormal, or 0); the two zeros are not told apart.                     *)
(***************************************************************************)
SignificandBits == 53
MinExponent == -1074
MaxExponent == 971

F64(k, s, m, e) == [k |-> k, s |-> s, m |-> m, e |-> e]

F64Zero == F64("num", 1, <<>>, MinExponent)
F64NaN == F64("nan", 1, <<>>, MinExponent)
F64Inf(s) == F64("inf", s, <<>>, MinExponent)

IsZero(x) == x.k = "num" /\ x.m = <<>>
IsNaN(x) == x.k = "nan"
IsFinite(x) == x.k = "num"

\* s * m * 2^e for m below 2^54: one bit goes if m has 54, and what is
\* beyond the largest double is an infinity
F64Pack(s, m, e) ==
  IF m = <<>> THEN F64Zero
  ELSE IF BBits(m) > SignificandBits
  THEN (IF e + 1 > MaxExponent THEN F64Inf(s) ELSE F64("num", s, BShr(m, 1), e + 1))
  ELSE IF e > MaxExponent THEN F64Inf(s)
  ELSE F64("num", s, m, e)

\* whether q + f rounds up to q + 1: half is 1, 0 or -1 as the fraction f
\* without what sticky stands for is above, at or below one half
F64RoundsUp(q, half, sticky) ==
  half > 0 \/ (half = 0 /\ (sticky \/ BBit(q, 0) = 1))

\* s * (M + f) * 2^E rounded after dropping the drop > 0 low bits of M
F64RoundDropping(s, M, E, sticky, drop, q) ==
  F64Pack(s,
          IF F64RoundsUp(q, BCmp(BSub(M, BShl(q, drop)), BShl(BOne, drop - 1)), sticky)
          THEN BAdd(q, BOne) ELSE q,
          E + drop)

\* s * M * 2^E with M shifted left bits, which loses nothing
F64Widened(s, M, E, left) ==
  IF E - left > MaxExponent THEN F64Inf(s) ELSE F64("num", s, BShl(M, left), E - left)

\* drop is the number of low bits of M that a double cannot hold
F64RoundBy(s, M, E, sticky, drop) ==
  IF drop <= 0
  THEN F64Widened(s, M, E, MinInt(SignificandBits - BBits(M), E - MinExponent))
  ELSE F64RoundDropping(s, M, E, sticky, drop, BShr(M, drop))

\* the double nearest to s * (M + f) * 2^E, where 0 < f < 1 if sticky and
\* f = 0 otherwise; with sticky, M holds at least two bits more than the result
F64Round(s, M, E, sticky) ==
  IF M = <<>> THEN F64Zero
  ELSE F64RoundBy(s, M, E, sticky,
                  IF BBits(M) - SignificandBits > MinExponent - E
                  THEN BBits(M) - SignificandBits ELSE MinExponent - E)

\* the double of a machine integer
F64OfInt(n) == F64Round(IF n < 0 THEN -1 ELSE 1, BOfInt(IF n < 0 THEN -n ELSE n), 0, FALSE)

\* the double 2^n
F64Pow2(n) == F64Round(1, BOne, n, FALSE)

\* x * y
F64Mul(x, y) ==
  IF IsNaN(x) \/ IsNaN(y) THEN F64NaN
  ELSE IF x.k = "inf" \/ y.k = "inf"
  THEN (IF IsZero(x) \/ IsZero(y) THEN F64NaN ELSE F64Inf(x.s * y.s))
  ELSE F64Round(x.s * y.s, BMul(x.m, y.m), x.e + y.e, FALSE)

\* s * M * 2^f + t * n * 2^f, exactly, then rounded
F64AddMagnitudes(s, M, t, n, f) ==
  F64Round(IF s = t \/ BCmp(M, n) >= 0 THEN s ELSE t,
           IF s = t THEN BAdd(M, n)
           ELSE IF BCmp(M, n) >= 0 THEN BSub(M, n) ELSE BSub(n, M),
           f, FALSE)

\* x + y for finite x and y that are not 0, x of the exponent not below y's
F64AddAligned(x, y) == F64AddMagnitudes(x.s, BShl(x.m, x.e - y.e), y.s, y.m, y.e)

\* exponents further apart than this leave the larger operand unchanged
FarApart == 2 * SignificandBits + 4

\* x + y
F64Add(x, y) ==
  IF IsNaN(x) \/ IsNaN(y) THEN F64NaN
  ELSE IF x.k = "inf" /\ y.k = "inf" THEN (IF x.s = y.s THEN x ELSE F64NaN)
  ELSE IF x.k = "inf" THEN x
  ELSE IF y.k = "inf" THEN y
  ELSE IF IsZero(x) THEN y
  ELSE IF IsZero(y) THEN x
  ELSE IF x.e - y.e > FarApart THEN x
  ELSE IF y.e - x.e > FarApart THEN y
  ELSE F64AddAligned(IF x.e >= y.e THEN x ELSE y, IF x.e >= y.e THEN y ELSE x)

\* x / y from <<the quotient, the remainder>> of x.m * 2^k by y.m
F64DivRounded(x, y, k, qr) == F64Round(x.s * y.s, qr[1], x.e - y.e - k, qr[2] # <<>>)

\* k is such that the quotient holds two bits more than a significand
F64DivScaled(x, y, k) == F64DivRounded(x, y, k, BDivMod(BShl(x.m, k), y.m))

\* x / y
F64Div(x, y) ==
  IF IsNaN(x) \/ IsNaN(y) THEN F64NaN
  ELSE IF x.k = "inf" THEN (IF y.k = "inf" THEN F64NaN ELSE F64Inf(x.s * y.s))
  ELSE IF y.k = "inf" THEN F64Zero
  ELSE IF IsZero(y) THEN (IF IsZero(x) THEN F64NaN ELSE F64Inf(x.s * y.s))
  ELSE IF IsZero(x) THEN F64Zero
  ELSE F64DivScaled(x, y, SignificandBits + 2 + BBits(y.m) - BBits(x.m))

\* Math.sqrt(x) from the root r of M = x.m * 2^k
F64SqrtRounded(x, k, M, r) == F64Round(1, r, (x.e - k) \div 2, BMul(r, r) # M)

\* k is such that x.e - k is even and the root holds two bits more than a
\* significand
F64SqrtScaled(x, k) == F64SqrtRounded(x, k, BShl(x.m, k), BSqrt(BShl(x.m, k)))

F64SqrtShift(x, k0) == F64SqrtScaled(x, k0 + ((x.e - k0) % 2))

\* Math.sqrt(x)
F64Sqrt(x) ==
  IF IsNaN(x) THEN F64NaN
  ELSE IF IsZero(x) THEN F64Zero
  ELSE IF x.s < 0 THEN F64NaN
  ELSE IF x.k = "inf" THEN x
  ELSE F64SqrtShift(x, 2 * SignificandBits + 2 - BBits(x.m))

F64Negative(x) == x.s < 0 /\ ~IsZero(x)

\* |x| < |y|
F64MagnitudeLess(x, y) ==
  IF x.k = "inf" THEN FALSE
  ELSE IF y.k = "inf" THEN TRUE
  ELSE x.e < y.e \/ (x.e = y.e /\ BCmp(x.m, y.m) < 0)

\* x < y, for two doubles that are not NaN
F64Less(x, y) ==
  IF F64Negative(x) /\ ~F64Negative(y) THEN TRUE
  ELSE IF ~F64Negative(x) /\ F64Negative(y) THEN FALSE
  ELSE IF F64Negative(x) THEN F64MagnitudeLess(y, x)
  ELSE F64MagnitudeLess(x, y)

\* a double used as a condition: 0 and NaN are falsy
F64Truthy(x) == ~IsZero(x) /\ ~IsNaN(x)

(***************************************************************************)
(* src/common/vector.utils.ts over doubles                                 *)
(***************************************************************************)
\* one round of the loop of lines 10-14, on the elements x of a and y of b
CosineStep(sums, x, y) ==
  [dot |-> F64Add(sums.dot, F64Mul(x, y)),
   normA |-> F64Add(sums.normA, F64Mul(x, x)),
   normB |-> F64Add(sums.normB, F64Mul(y, y))]

\* dot, normA and normB after the first n rounds of the loop
RECURSIVE CosineSums(_, _, _)
CosineSums(a, b, n) ==
  IF n = 0 THEN [dot |-> F64Zero, normA |-> F64Zero, normB |-> F64Zero]
  ELSE CosineStep(CosineSums(a, b, n - 1), a[n], b[n])

\* lines 16-20
CosineOfSums(sums) ==
  IF ~F64Truthy(sums.normA) \/ ~F64Truthy(sums.normB) THEN F64Zero
  ELSE F64Div(sums.dot, F64Mul(F64Sqrt(sums.normA), F64Sqrt(sums.normB)))

cosineSimilarityF64(a, b) ==
  IF Len(a) = 0 \/ Len(b) = 0 \/ Len(a) # Len(b) THEN F64Zero
  ELSE CosineOfSums(CosineSums(a, b, Len(a)))

\* Math.max(...values): -Infinity of no value, NaN if any value is NaN
MathMax(values) ==
  IF values = <<>> THEN F64Inf(-1)
  ELSE IF \E i \in 1..Len(values) : IsNaN(values[i]) THEN F64NaN
  ELSE values[CHOOSE i \in 1..Len(values) :
                \A j \in 1..Len(values) : ~F64Less(values[i], values[j])]

\* lines 25-28
DivideByMax(values, max) ==
  IF IsZero(max) THEN [i \in 1..Len(values) |-> F64Zero]
  ELSE [i \in 1..Len(values) |-> F64Div(values[i], max)]

\* the maximum is not tested for 0
normalizeVectorF64Unguarded(values) ==
  [i \in 1..Len(values) |-> F64Div(values[i], MathMax(values))]

normalizeVectorF64(values) == DivideByMax(values, MathMax(values))

computeTraitSimilarityF64(userVector, vendorVector) ==
  cosineSimilarityF64(normalizeVectorF64(userVector), normalizeVectorF64(vendorVector))

(***************************************************************************)
(* Stored data: the users, vendors and interactions the storage holds      *)
(***************************************************************************)
TraitFields ==
  <<"adventurous", "decisive", "eccentric", "flexible", "loyal",
    "optimistic", "patient", "perfectionist", "punctual">>

VendorTraitFields ==
  <<"serviceQuality", "interactionStyle", "serviceConduct", "expertise",
    "environment", "atmosphere", "design", "hospitality", "outcomeQuality",
    "waitingTime", "physicalElements", "experienceTone">>

TraitsOf(v) == [f \in {TraitFields[i] : i \in 1..Len(TraitFields)} |->
                  v[CHOOSE i \in 1..Len(TraitFields) : TraitFields[i] = f]]

VendorTraitsOf(v) ==
  [f \in {VendorTraitFields[i] : i \in 1..Len(VendorTraitFields)} |->
     v[CHOOSE i \in 1..Len(VendorTraitFields) : VendorTraitFields[i] = f]]

\* behaviorPreferences values, by their JSON text
ValidBehaviorPreferences == {"{}", "{notes:calm}", "{notes:loud}"}

UserIds == {1, 2}
\* ids a request may name: the stored users and one id that is not stored
RequestUserIds == UserIds \cup {9}

(***************************************************************************)
(* Prompts and the embedding generator                                     *)
(***************************************************************************)
Line(label, n, s) == [label |-> label, n |-> n, s |-> s]

TraitLines(traits) ==
  [i \in 1..Len(TraitKeys) |-> Line(TraitKeys[i], traits[TraitFields[i]], "")]

\* Boolean(behaviorPreferences): null and undefined are falsy, any object is truthy
Truthy(behaviorPreferences) == behaviorPreferences # Null

\* the prompt carries the test-user line whatever the user is
buildUserPromptFromTraitsAsTestUser(name, traits, behaviorPreferences) ==
  <<Line("User", 0, name),
    Line("This is a test user for behavior experiments.", 0, ""),
    Line("Personality traits:", 0, "")>>
  \o TraitLines(traits)
  \o (IF Truthy(behaviorPreferences)
      THEN <<Line("Behavior preferences", 0, behaviorPreferences)>> ELSE <<>>)

\* RecommendationsService.buildUserPromptFromTraits; the "" entry is filtered out
buildUserPromptFromTraits(name, traits, behaviorPreferences) ==
  <<Line("User", 0, name), Line("Personality traits:", 0, "")>>
  \o TraitLines(traits)
  \o (IF Truthy(behaviorPreferences)
      THEN <<Line("Behavior preferences", 0, behaviorPreferences)>> ELSE <<>>)

\* UsersService.buildUserPrompt
buildUserPrompt(name, traits, behaviorPreferences, isTestUser) ==
  <<Line("User", 0, name)>>
  \o (IF isTestUser
      THEN <<Line("This is a test user for behavior experiments.", 0, "")>> ELSE <<>>)
  \o <<Line("Personality traits:", 0, "")>>
  \o TraitLines(traits)
  \o (IF Truthy(behaviorPreferences)
      THEN <<Line("Behavior preferences", 0, behaviorPreferences)>> ELSE <<>>)

TextCode(s) ==
  CASE s = "Adventurous Alex" -> 1
    [] s = "Careful Casey" -> 2
    [] s = "{}" -> 3
    [] s = "{notes:calm}" -> 4
    [] s = "{notes:loud}" -> 5
    [] s = "This is a test user for behavior experiments." -> 7
    [] s = "Behavior preferences" -> 11
    [] OTHER -> 0

PromptHash(prompt) ==
  SumSeq([i \in 1..Len(prompt) |->
            i * (prompt[i].n + TextCode(prompt[i].label) + TextCode(prompt[i].s))])

\* the generator's vector for a text: deterministic, fixed dimension,
\* non-negative components (the hash-based mock of generate_embedding.py)
Embed(prompt) ==
  LET h == PromptHash(prompt)
  IN <<1 + (h % 3), 1 + ((h \div 3) % 3), (h \div 9) % 3>>

(***************************************************************************)
(* The database after seeding                                              *)
(***************************************************************************)
MakeUser(id, name, traitValues, behaviorPreferences, isTestUser) ==
  [id |-> id, name |-> name, traits |-> TraitsOf(traitValues),
   behaviorPreferences |-> behaviorPreferences, isTestUser |-> isTestUser,
   embedding |-> Embed(buildUserPrompt(name, TraitsOf(traitValues),
                                       behaviorPreferences, isTestUser))]

MakeVendor(id, traitValues, embedding) ==
  [id |-> id, traits |-> VendorTraitsOf(traitValues), embedding |-> embedding]

SeedUsers ==
  [u \in UserIds |->
     IF u = 1
     THEN MakeUser(1, "Adventurous Alex", <<5, 4, 3, 4, 3, 5, 2, 2, 3>>, Null, FALSE)
     ELSE MakeUser(2, "Careful Casey", <<1, 2, 0, 2, 5, 3, 5, 5, 4>>, "{notes:calm}", TRUE)]

\* vendors 2 and 3 carry the same traits and embedding; vendor 4 is all zeros
SeedVendors ==
  <<MakeVendor(1, <<2, 1, 3, 4, 2, 2, 3, 5, 2, 2, 2, 5>>, <<3, 1, 0>>),
    MakeVendor(2, <<5, 5, 4, 1, 1, 3, 2, 1, 4, 5, 1, 1>>, <<1, 2, 2>>),
    MakeVendor(3, <<5, 5, 4, 1, 1, 3, 2, 1, 4, 5, 1, 1>>, <<1, 2, 2>>),
    MakeVendor(4, <<0, 0, 0, 0, 0, 0, 0, 0, 0, 0, 0, 0>>, <<0, 0, 0>>)>>

Interaction(userId, vendorId, liked, score) ==
  [userId |-> userId, vendorId |-> vendorId, liked |-> liked, score |-> score]

\* score 0 stands for a null score
NoScore == 0

\* user 1 liked vendor 1 and disliked vendor 3; user 2 has no interaction
SeedInteractions ==
  <<Interaction(1, 1, TRUE, NoScore), Interaction(1, 3, FALSE, 2)>>

(***************************************************************************)
(* The adjustments query parameter                                         *)
(*                                                                         *)
(* A raw payload is [kind, obj]: kind is "undefined" (no parameter),       *)
(* "empty" (the empty string), "notJson" (text JSON.parse rejects),        *)
(* "jsonNull", "jsonArray" (JSON that is no plain object) or *)
(* "object"; obj maps the keys of a JSON object to their values.  A value  *)
(* is [t, n, s]: its JSON type, its number, its text.                      *)
(***************************************************************************)
Num(n) == [t |-> "number", n |-> n, s |-> ""]
Str(s) == [t |-> "string", n |-> 0, s |-> s]
Obj(s) == [t |-> "object", n |-> 0, s |-> s]

EmptyObject == <<>>

Payload(kind, obj) == [kind |-> kind, obj |-> obj]

NoPayload == Payload("undefined", EmptyObject)

ZeroWeights ==
  [k \in WeightKeys |-> Num(0)]

WellFormedObjects ==
  { EmptyObject,
    [k \in {"foo"} |-> Num(1)],
    [k \in {"Adventurous"} |-> Num(0)],
    [k \in {"Perfectionist", "Loyal"} |-> IF k = "Loyal" THEN Num(5) ELSE Num(1)],
    ZeroWeights,
    [k \in {"embeddingWeight"} |-> Num(10)],
    [k \in {"traitWeight", "behaviorWeight"} |-> IF k = "traitWeight" THEN Num(1) ELSE Num(7)],
    [k \in {"behaviorPreferences"} |-> Obj("{notes:loud}")],
    [k \in {"behaviorPreferences", "Patient"} |->
       IF k = "Patient" THEN Num(0) ELSE Obj("{}")] }

MalformedObjects ==
  { [k \in {"Adventurous"} |-> Num(7)],
    [k \in {"Decisive"} |-> Num(-1)],
    [k \in {"Eccentric"} |-> Str("high")],
    [k \in {"traitWeight"} |-> Num(11)],
    [k \in {"embeddingWeight", "behaviorWeight"} |->
       IF k = "embeddingWeight" THEN Num(5) ELSE Num(-2)],
    [k \in {"behaviorPreferences"} |-> Obj("{notes:5}")] }

RawPayloads ==
  {NoPayload, Payload("empty", EmptyObject), Payload("notJson", EmptyObject),
   Payload("jsonNull", EmptyObject), Payload("jsonArray", EmptyObject)}
  \cup {Payload("object", o) : o \in WellFormedObjects \cup MalformedObjects}

\* `if (adjustmentsRaw)`: undefined and "" are falsy
RawSupplied(raw) == raw.kind \notin {"undefined", "empty"}

\* JSON.parse(adjustmentsRaw) returns (TRUE) or throws a SyntaxError (FALSE)
JsonParses(raw) == raw.kind \notin {"notJson", "empty"}

IsTraitKey(k) == \E i \in 1..Len(TraitKeys) : TraitKeys[i] = k

TraitFieldValidNoMax(v) == v.t = "number" /\ v.n >= MinTrait

\* z.number().min(0).max(5).optional()
TraitFieldValid(v) == v.t = "number" /\ v.n >= MinTrait /\ v.n <= MaxTrait

\* z.number().min(0).max(1).optional()
WeightFieldValid(v) == v.t = "number" /\ v.n >= MinWeight /\ v.n <= MaxWeight

\* behaviorPreferencesSchema.optional()
BehaviorPreferencesFieldValid(v) == v.t = "object" /\ v.s \in ValidBehaviorPreferences

FieldValid(k, v) ==
  IF IsTraitKey(k) THEN TraitFieldValid(v)
  ELSE IF k \in WeightKeys THEN WeightFieldValid(v)
  ELSE BehaviorPreferencesFieldValid(v)

\* adjustmentsSchema.parse(parsed) returns (TRUE) or throws a ZodError (FALSE)
SchemaAccepts(raw) ==
  /\ raw.kind = "object"
  /\ \A k \in (DOMAIN raw.obj) \cap SchemaKeys : FieldValid(k, raw.obj[k])

\* the value adjustmentsSchema.parse returns: the schema's keys, the others stripped
SchemaOutput(raw) == [k \in (DOMAIN raw.obj) \cap SchemaKeys |-> raw.obj[k]]

\* lines 274-282: the adjustments variable after the if, or the throw
ParseThrows(raw) == RawSupplied(raw) /\ ~(JsonParses(raw) /\ SchemaAccepts(raw))

ParsedAdjustments(raw) ==
  IF RawSupplied(raw)
  THEN [defined |-> TRUE, obj |-> SchemaOutput(raw)]
  ELSE [defined |-> FALSE, obj |-> EmptyObject]

(***************************************************************************)
(* Adjustment resolution and weight normalization (lines 284-311)          *)
(***************************************************************************)
\* `||` in place of `??`: an override of 0 falls back
NumberOrTruthy(adjustments, key, fallback) ==
  IF adjustments.defined /\ key \in DOMAIN adjustments.obj
     /\ adjustments.obj[key].n # 0
  THEN adjustments.obj[key].n ELSE fallback

\* adjustments?.Key ?? fallback, for a numeric key
NumberOr(adjustments, key, fallback) ==
  IF adjustments.defined /\ key \in DOMAIN adjustments.obj
  THEN adjustments.obj[key].n ELSE fallback

EffectiveTraits(adjustments, user) ==
  [f \in DOMAIN user.traits |->
     NumberOr(adjustments,
              TraitKeys[CHOOSE i \in 1..Len(TraitFields) : TraitFields[i] = f],
              user.traits[f])]

\* a payload that overrides one weight leaves the others at 0
EffectiveWeightsNoDefaultsOnOverride(adjustments) ==
  LET overridden == adjustments.defined /\ (DOMAIN adjustments.obj) \cap WeightKeys # {}
  IN [embedding |-> NumberOr(adjustments, "embeddingWeight",
                             IF overridden THEN 0 ELSE DefaultEmbeddingWeight),
      traits |-> NumberOr(adjustments, "traitWeight",
                          IF overridden THEN 0 ELSE DefaultTraitsWeight),
      behavior |-> NumberOr(adjustments, "behaviorWeight",
                            IF overridden THEN 0 ELSE DefaultBehaviorWeight)]

EffectiveWeights(adjustments) ==
  [embedding |-> NumberOr(adjustments, "embeddingWeight", DefaultEmbeddingWeight),
   traits |-> NumberOr(adjustments, "traitWeight", DefaultTraitsWeight),
   behavior |-> NumberOr(adjustments, "behaviorWeight", DefaultBehaviorWeight)]

\* weights.embedding + weights.traits + weights.behavior
WeightSumNoFallback(weights) == weights.embedding + weights.traits + weights.behavior

WeightSumDropsBehavior(weights) ==
  IF weights.embedding + weights.traits = 0 THEN FallbackWeightSum
  ELSE weights.embedding + weights.traits

\* weights.embedding + weights.traits + weights.behavior || 1
WeightSum(weights) ==
  IF weights.embedding + weights.traits + weights.behavior = 0
  THEN FallbackWeightSum
  ELSE weights.embedding + weights.traits + weights.behavior

Frac(num, den) == [num |-> num, den |-> den]

NormalizedWeights(weights, weightSum) ==
  [embedding |-> Frac(weights.embedding, weightSum),
   traits |-> Frac(weights.traits, weightSum),
   behavior |-> Frac(weights.behavior, weightSum)]

\* the stored preferences win over the adjustment's
EffectiveBehaviorPreferencesStoredFirst(adjustments, user) ==
  IF user.behaviorPreferences # Null THEN user.behaviorPreferences
  ELSE IF adjustments.defined /\ "behaviorPreferences" \in DOMAIN adjustments.obj
  THEN adjustments.obj["behaviorPreferences"].s
  ELSE Null

\* adjustments?.behaviorPreferences ?? user.behaviorPreferences ?? undefined
EffectiveBehaviorPreferences(adjustments, user) ==
  IF adjustments.defined /\ "behaviorPreferences" \in DOMAIN adjustments.obj
  THEN adjustments.obj["behaviorPreferences"].s
  ELSE user.behaviorPreferences

\* `if (testMode || adjustments)`: a parsed adjustments object is truthy, also {}
NeedsFreshEmbeddingIfAnyField(testMode, adjustments) ==
  testMode \/ (adjustments.defined /\ DOMAIN adjustments.obj # {})

NeedsFreshEmbedding(testMode, adjustments) == testMode \/ adjustments.defined

(***************************************************************************)
(* Scoring (lines 111-256, 329-395)                                        *)
(***************************************************************************)
getUserTraitVector(traits) == [i \in 1..Len(TraitFields) |-> traits[TraitFields[i]]]

\* the vendor's vector is cut to the length of the user's
getVendorTraitVectorOfUserLength(vendor) ==
  [i \in 1..Len(TraitFields) |-> vendor.traits[VendorTraitFields[i]]]

getVendorTraitVector(vendor) ==
  [i \in 1..Len(VendorTraitFields) |-> vendor.traits[VendorTraitFields[i]]]

computeTraitSimilarity(userVector, vendorVector) ==
  cosineSimilarityNormalized(normalizeVector(userVector), normalizeVector(vendorVector))

\* userInteractions.find((i) => i.vendorId === vendorId): its index, 0 when none
FindInteraction(userInteractions, vendorId) ==
  IF \E i \in 1..Len(userInteractions) : userInteractions[i].vendorId = vendorId
  THEN CHOOSE i \in 1..Len(userInteractions) :
         /\ userInteractions[i].vendorId = vendorId
         /\ \A j \in 1..(i - 1) : userInteractions[j].vendorId # vendorId
  ELSE 0

\* a rating of 4 or more counts as liked
DirectScoreCountsRating(userInteractions, vendorId) ==
  LET i == FindInteraction(userInteractions, vendorId)
  IN IF i # 0 /\ (userInteractions[i].liked \/ userInteractions[i].score >= 4)
     THEN 1 ELSE 0

DirectScore(userInteractions, vendorId) ==
  LET i == FindInteraction(userInteractions, vendorId)
  IN IF i # 0 /\ userInteractions[i].liked THEN 1 ELSE 0

\* userInteractions.filter((i) => i.liked)
LikedInteractions(userInteractions) == SelectSeq(userInteractions, LAMBDA i : i.liked)

\* the total is returned undivided
SimilarityAggregateUndivided(userInteractions, vendorTraitVector, likedVendorsTraitMap) ==
  LET likedVendors == LikedInteractions(userInteractions)
  IN SumSeq([k \in 1..Len(likedVendors) |->
               IF likedVendors[k].vendorId \in DOMAIN likedVendorsTraitMap
               THEN computeTraitSimilarity(vendorTraitVector,
                      likedVendorsTraitMap[likedVendors[k].vendorId])
               ELSE 0])

SimilarityAggregate(userInteractions, vendorTraitVector, likedVendorsTraitMap) ==
  LET likedVendors == LikedInteractions(userInteractions)
      total == SumSeq([k \in 1..Len(likedVendors) |->
                 IF likedVendors[k].vendorId \in DOMAIN likedVendorsTraitMap
                 THEN computeTraitSimilarity(vendorTraitVector,
                        likedVendorsTraitMap[likedVendors[k].vendorId])
                 ELSE 0])
  IN IF Len(likedVendors) > 0 THEN total \div Len(likedVendors) ELSE 0

\* 0.6 * directScore + 0.4 * similarityAggregate, in units of 1/Scale
computeBehaviorScoreForVendor(vendorId, userInteractions, vendorVec, likedMap) ==
  (DirectShare * DirectScore(userInteractions, vendorId) * Scale
   + SimilarityShare * SimilarityAggregate(userInteractions, vendorVec,
                                           likedMap)) \div 10

(***************************************************************************)
(* The scoring helpers over doubles (lines 202-256)                        *)
(***************************************************************************)
\* the literals 0.6 and 0.4 of line 254: the doubles nearest to 6/10 and 4/10
DirectShareF64 == F64Div(F64OfInt(DirectShare), F64OfInt(10))
SimilarityShareF64 == F64Div(F64OfInt(SimilarityShare), F64OfInt(10))

\* one round of the loop of lines 245-249, on the liked interaction
AddSimilarity(total, liked, vendorTraitVector, likedVendorsTraitMap) ==
  IF liked.vendorId \notin DOMAIN likedVendorsTraitMap THEN total
  ELSE F64Add(total, computeTraitSimilarityF64(vendorTraitVector,
                                               likedVendorsTraitMap[liked.vendorId]))

\* total after the first n rounds of the loop
RECURSIVE SimilarityTotalF64(_, _, _, _)
SimilarityTotalF64(likedVendors, vendorTraitVector, likedVendorsTraitMap, n) ==
  IF n = 0 THEN F64Zero
  ELSE AddSimilarity(SimilarityTotalF64(likedVendors, vendorTraitVector,
                                        likedVendorsTraitMap, n - 1),
                     likedVendors[n], vendorTraitVector, likedVendorsTraitMap)

SimilarityAggregateF64(userInteractions, vendorTraitVector, likedVendorsTraitMap) ==
  LET likedVendors == LikedInteractions(userInteractions)
  IN IF Len(likedVendors) > 0
     THEN F64Div(SimilarityTotalF64(likedVendors, vendorTraitVector,
                                    likedVendorsTraitMap, Len(likedVendors)),
                 F64OfInt(Len(likedVendors)))
     ELSE F64Zero

\* the direct score is left out of the sum
computeBehaviorScoreForVendorF64NoDirect(vendorId, userInteractions, vendorVec, likedMap) ==
  F64Mul(SimilarityShareF64, SimilarityAggregateF64(userInteractions, vendorVec, likedMap))

\* 0.6 * directScore + 0.4 * similarityAggregate
computeBehaviorScoreForVendorF64(vendorId, userInteractions, vendorVec, likedMap) ==
  F64Add(F64Mul(DirectShareF64, F64OfInt(DirectScore(userInteractions, vendorId))),
         F64Mul(SimilarityShareF64,
                SimilarityAggregateF64(userInteractions, vendorVec, likedMap)))

\* lines 331-341: id -> trait vector of the loaded vendors the user liked
LikedVendorsTraitMap(user, vendorList) ==
  LET likedIds == {vendorList[k].id : k \in
                     {k \in 1..Len(vendorList) :
                        \E i \in 1..Len(user.interactions) :
                          /\ user.interactions[i].vendorId = vendorList[k].id
                          /\ user.interactions[i].liked}}
  IN [id \in likedIds |->
        getVendorTraitVector(
          vendorList[CHOOSE k \in 1..Len(vendorList) :
                       /\ vendorList[k].id = id
                       /\ \A j \in (k + 1)..Len(vendorList) : vendorList[j].id # id])]

\* lines 343-353
InteractionSummaries(user) ==
  [i \in 1..Len(user.interactions) |->
     [vendorId |-> user.interactions[i].vendorId,
      liked |-> user.interactions[i].liked,
      score |-> user.interactions[i].score]]

\* normalizedWeights.embedding * embeddingScore + ... : the common divisor kept
FinalScore(normalizedWeights, embeddingScore, traitScore, behaviorScore) ==
  Frac(normalizedWeights.embedding.num * embeddingScore
       + normalizedWeights.traits.num * traitScore
       + normalizedWeights.behavior.num * behaviorScore,
       normalizedWeights.embedding.den)

\* lines 355-395: one RecommendationItem
ScoreVendor(vendor, r, userTraitVector, userInteractions, likedVendorsTraitMap) ==
  LET vendorTraitVector == getVendorTraitVector(vendor)
      embeddingScore == cosineSimilarity(r.userEmbedding, vendor.embedding)
      traitScore == computeTraitSimilarity(userTraitVector, vendorTraitVector)
      behaviorScore == computeBehaviorScoreForVendor(vendor.id, userInteractions,
                         vendorTraitVector, likedVendorsTraitMap)
  IN [vendor |-> vendor,
      scores |-> [embeddingScore |-> embeddingScore,
                  traitScore |-> traitScore,
                  behaviorScore |-> behaviorScore,
                  finalScore |-> FinalScore(r.normalizedWeights, embeddingScore,
                                            traitScore, behaviorScore)],
      debug |-> IF r.debug THEN vendorTraitVector ELSE <<>>]

\* the vendors the user has interacted with are left out
ScoreVendorsNotInteractedWith(vendorList, r) ==
  LET userTraitVector == getUserTraitVector(r.traits)
      likedVendorsTraitMap == LikedVendorsTraitMap(r.user, vendorList)
      userInteractions == InteractionSummaries(r.user)
      fresh == SelectSeq(vendorList,
                         LAMBDA v : FindInteraction(userInteractions, v.id) = 0)
  IN [k \in 1..Len(fresh) |->
        ScoreVendor(fresh[k], r, userTraitVector, userInteractions,
                    likedVendorsTraitMap)]

ScoreVendors(vendorList, r) ==
  LET userTraitVector == getUserTraitVector(r.traits)
      likedVendorsTraitMap == LikedVendorsTraitMap(r.user, vendorList)
      userInteractions == InteractionSummaries(r.user)
  IN [k \in 1..Len(vendorList) |->
        ScoreVendor(vendorList[k], r, userTraitVector, userInteractions,
                    likedVendorsTraitMap)]

(***************************************************************************)
(* results.sort((a, b) => b.scores.finalScore - a.scores.finalScore)       *)
(***************************************************************************)
\* the sign of x - y for two fractions with denominators >= 0
FracDiffSign(x, y) ==
  LET d == x.num * y.den - y.num * x.den
  IN IF d > 0 THEN 1 ELSE IF d < 0 THEN -1 ELSE 0

compareAscending(a, b) == FracDiffSign(a.scores.finalScore, b.scores.finalScore)

\* the comparator: negative puts a before b
compareResults(a, b) == FracDiffSign(b.scores.finalScore, a.scores.finalScore)

\* x enters a sorted list behind every element that does not sort after it
InsertSorted(sorted, x) ==
  LET n == Cardinality({i \in 1..Len(sorted) : compareResults(sorted[i], x) <= 0})
  IN SubSeq(sorted, 1, n) \o <<x>> \o SubSeq(sorted, n + 1, Len(sorted))

RECURSIVE StableSortFrom(_, _, _)
StableSortFrom(items, k, sorted) ==
  IF k > Len(items) THEN sorted
  ELSE StableSortFrom(items, k + 1, InsertSorted(sorted, items[k]))

StableSort(items) == StableSortFrom(items, 1, <<>>)

IndexPermutations(n) ==
  {p \in [1..n -> 1..n] : \A i, j \in 1..n : i # j => p[i] # p[j]}

\* what a sort that may reorder equal elements can return
sortOutcomesUnstable(items) ==
  {[k \in 1..Len(items) |-> items[p[k]]] : p \in
     {p \in IndexPermutations(Len(items)) :
        \A i, j \in 1..Len(items) :
          i < j => compareResults(items[p[i]], items[p[j]]) <= 0}}

\* Array.prototype.sort of the runtime (Node 20) is stable and deterministic
sortOutcomes(items) == {StableSort(items)}

(***************************************************************************)
(* One computeRecommendations call                                         *)
(*                                                                         *)
(* req.pc: "idle" (no call yet), "findUser" (awaiting user.findUnique),    *)
(* "generating" (awaiting generateEmbedding), "findVendors" (awaiting      *)
(* vendor.findMany), "returned" (the promise resolved with req.result),    *)
(* "threw" (the promise rejected with req.error), "crashed" (an uncaught   *)
(* error event ended the process).                                         *)
(***************************************************************************)
NoUser ==
  [found |-> FALSE, id |-> 0, name |-> "", traits |-> TraitsOf(<<0, 0, 0, 0, 0, 0, 0, 0, 0>>),
   behaviorPreferences |-> Null, isTestUser |-> FALSE, embedding |-> <<>>,
   interactions |-> <<>>]

NoResult ==
  [kind |-> "none", testMode |-> FALSE, traits |-> NoUser.traits,
   behaviorPreferences |-> Null,
   weights |-> NormalizedWeights([embedding |-> 0, traits |-> 0, behavior |-> 0], 0),
   debug |-> FALSE, userTraitVector |-> <<>>, prompt |-> <<>>,
   recommendations |-> <<>>]

IdleRequest ==
  [pc |-> "idle", userId |-> 0, testMode |-> FALSE, raw |-> NoPayload, debug |-> FALSE,
   ver0 |-> 0, user |-> NoUser,
   adjustments |-> [defined |-> FALSE, obj |-> EmptyObject],
   traits |-> NoUser.traits,
   weights |-> [embedding |-> 0, traits |-> 0, behavior |-> 0],
   normalizedWeights |-> NoResult.weights,
   behaviorPreferences |-> Null, userPrompt |-> <<>>, userEmbedding |-> <<>>,
   embCalls |-> 0, embOutcome |-> "none", scored |-> FALSE, error |-> "",
   result |-> NoResult]

NoPrev == [valid |-> FALSE, call |-> IdleRequest]

Finished(r) == r.pc \in {"returned", "threw"}

\* prisma.user.findUnique({ where: { id }, include: { interactions: true } })
FindUniqueUser(userId) ==
  IF userId \in DOMAIN users
  THEN [found |-> TRUE, id |-> users[userId].id, name |-> users[userId].name,
        traits |-> users[userId].traits,
        behaviorPreferences |-> users[userId].behaviorPreferences,
        isTestUser |-> users[userId].isTestUser,
        embedding |-> users[userId].embedding,
        interactions |-> SelectSeq(interactions, LAMBDA i : i.userId = userId)]
  ELSE NoUser

NewCall(userId, testMode, raw, debug) ==
  [IdleRequest EXCEPT !.pc = "findUser", !.userId = userId, !.testMode = testMode,
                      !.raw = raw, !.debug = debug, !.ver0 = writes]

\* the call: computeRecommendations(userId, testMode, adjustmentsRaw, { debug })
\* issues user.findUnique
CallComputeRecommendations(userId, testMode, raw, debug) ==
  /\ req.pc = "idle"
  /\ req' = NewCall(userId, testMode, raw, debug)
  /\ UNCHANGED <<users, vendors, interactions, prev, writes, calc, req2, ops, resp>>

\* the same call again, once the last one has settled; prev keeps the settled
\* call.  (The service holds no state of its own, so a later call with other
\* arguments sees what a first call over the same storage sees.)
CallAgain ==
  /\ Finished(req)
  /\ req' = NewCall(req.userId, req.testMode, req.raw, req.debug)
  /\ prev' = [valid |-> TRUE, call |-> req]
  /\ UNCHANGED <<users, vendors, interactions, writes, calc, req2, ops, resp>>

\* lines 274-323: adjustments are parsed and resolved, and either
\* generateEmbedding or vendor.findMany is called
ResolveFoundUser(r, user) ==
  IF ParseThrows(r.raw)
  THEN [r EXCEPT !.pc = "threw", !.user = user, !.error = "Invalid adjustments"]
  ELSE
    LET adjustments == ParsedAdjustments(r.raw)
        traits == EffectiveTraits(adjustments, user)
        weights == EffectiveWeights(adjustments)
        normalizedWeights == NormalizedWeights(weights, WeightSum(weights))
        behaviorPreferences == EffectiveBehaviorPreferences(adjustments, user)
        fresh == NeedsFreshEmbedding(r.testMode, adjustments)
    IN [r EXCEPT !.pc = IF fresh THEN "generating" ELSE "findVendors",
                 !.user = user,
                 !.adjustments = adjustments,
                 !.traits = traits,
                 !.weights = weights,
                 !.normalizedWeights = normalizedWeights,
                 !.behaviorPreferences = behaviorPreferences,
                 !.userPrompt = buildUserPromptFromTraits(user.name, traits,
                                                          behaviorPreferences),
                 !.userEmbedding = user.embedding,
                 !.embCalls = IF fresh THEN r.embCalls + 1 ELSE r.embCalls]

ResolveRequestThrowingNotFound(r, user) ==
  IF ~user.found THEN [r EXCEPT !.pc = "threw", !.error = "User not found"]
  ELSE ResolveFoundUser(r, user)

\* the adjustments are parsed before the user is looked at
ResolveRequestParsingFirst(r, user) ==
  IF ParseThrows(r.raw)
  THEN [r EXCEPT !.pc = "threw", !.error = "Invalid adjustments"]
  ELSE IF ~user.found THEN [r EXCEPT !.pc = "returned", !.result.kind = "null"]
  ELSE ResolveFoundUser(r, user)

\* lines 266-272: the user arrives; `if (!user) return null`
ResolveRequest(r, user) ==
  IF ~user.found THEN [r EXCEPT !.pc = "returned", !.result.kind = "null"]
  ELSE ResolveFoundUser(r, user)

FindUserAndResolve ==
  /\ req.pc = "findUser"
  /\ req' = ResolveRequest(req, FindUniqueUser(req.userId))
  /\ UNCHANGED <<users, vendors, interactions, prev, writes, calc, req2, ops, resp>>

(***************************************************************************)
(* EmbeddingsService.generateEmbedding, as the awaiting call sees it       *)
(***************************************************************************)
\* close with code 0 and parseable output: resolve(parsed)
GenerateEmbeddingResolves ==
  /\ req.pc = "generating"
  /\ req' = [req EXCEPT !.pc = "findVendors", !.embOutcome = "resolved",
                        !.userEmbedding = Embed(req.userPrompt)]
  /\ UNCHANGED <<users, vendors, interactions, prev, writes, calc, req2, ops, resp>>

GenerateEmbeddingRejectsFallingBack ==
  /\ req.pc = "generating"
  /\ req' = [req EXCEPT !.pc = "findVendors", !.embOutcome = "rejected"]
  /\ UNCHANGED <<users, vendors, interactions, prev, writes, calc, req2, ops, resp>>

\* a rejected generation is tried once more
GenerateEmbeddingRejectsRetrying ==
  /\ req.pc = "generating"
  /\ req' = IF req.embCalls < 2
            THEN [req EXCEPT !.embCalls = @ + 1]
            ELSE [req EXCEPT !.pc = "threw", !.embOutcome = "rejected",
                             !.error = "Failed to generate embedding"]
  /\ UNCHANGED <<users, vendors, interactions, prev, writes, calc, req2, ops, resp>>

\* close with a non-zero code, or output JSON.parse rejects: reject(...)
GenerateEmbeddingRejects ==
  /\ req.pc = "generating"
  /\ \E message \in {"Failed to generate embedding", "Failed to parse embedding output"} :
       req' = [req EXCEPT !.pc = "threw", !.embOutcome = "rejected", !.error = message]
  /\ UNCHANGED <<users, vendors, interactions, prev, writes, calc, req2, ops, resp>>

\* the child emits 'error' (spawn failure) and no listener is registered:
\* the uncaught error ends the process before the promise settles
GenerateEmbeddingSpawnError ==
  /\ req.pc = "generating"
  /\ req' = [req EXCEPT !.pc = "crashed", !.embOutcome = "spawnError"]
  /\ UNCHANGED <<users, vendors, interactions, prev, writes, calc, req2, ops, resp>>

(***************************************************************************)
(* lines 325-421: the vendors arrive; score, sort, return                  *)
(***************************************************************************)
RankedResult(r, sorted) ==
  [kind |-> "ranked", testMode |-> r.testMode, traits |-> r.traits,
   behaviorPreferences |-> r.behaviorPreferences,
   weights |-> r.normalizedWeights, debug |-> r.debug,
   userTraitVector |-> IF r.debug THEN getUserTraitVector(r.traits) ELSE <<>>,
   prompt |-> IF r.debug THEN r.userPrompt ELSE <<>>,
   recommendations |-> sorted]

FindVendorsAndRankPersistingView ==
  /\ req.pc = "findVendors"
  /\ \E sorted \in sortOutcomes(ScoreVendors(vendors, req)) :
       /\ req' = [req EXCEPT !.pc = "returned", !.scored = TRUE,
                             !.result = RankedResult(req, sorted)]
       /\ interactions' =
            IF Len(sorted) > 0
               /\ ~\E i \in 1..Len(interactions) :
                     /\ interactions[i].userId = req.userId
                     /\ interactions[i].vendorId = sorted[1].vendor.id
            THEN Append(interactions,
                        [userId |-> req.userId, vendorId |-> sorted[1].vendor.id,
                         liked |-> TRUE, score |-> NoScore])
            ELSE interactions
  /\ UNCHANGED <<users, vendors, prev, writes, calc, req2, ops, resp>>

FindVendorsAndRankPersistingEmbedding ==
  /\ req.pc = "findVendors"
  /\ \E sorted \in sortOutcomes(ScoreVendors(vendors, req)) :
       req' = [req EXCEPT !.pc = "returned", !.scored = TRUE,
                          !.result = RankedResult(req, sorted)]
  /\ users' = [users EXCEPT ![req.userId].embedding = req.userEmbedding,
                            ![req.userId].traits = req.traits]
  /\ UNCHANGED <<vendors, interactions, prev, writes, calc, req2, ops, resp>>

FindVendorsAndRank ==
  /\ req.pc = "findVendors"
  /\ \E sorted \in sortOutcomes(ScoreVendors(vendors, req)) :
       req' = [req EXCEPT !.pc = "returned", !.scored = TRUE,
                          !.result = RankedResult(req, sorted)]
  /\ UNCHANGED <<users, vendors, interactions, prev, writes, calc, req2, ops, resp>>

(***************************************************************************)
(* Storage writers running beside the call                                 *)
(***************************************************************************)
ProcessUp == req.pc # "crashed"

\* the score of an input that gives none (it is optional)
NotGiven == -1

UpsertInputs ==
  {[userId |-> 1, vendorId |-> 1, liked |-> FALSE, score |-> 5],
   [userId |-> 1, vendorId |-> 2, liked |-> TRUE, score |-> NotGiven],
   [userId |-> 2, vendorId |-> 3, liked |-> TRUE, score |-> 4],
   [userId |-> 1, vendorId |-> 3, liked |-> TRUE, score |-> NotGiven],
   [userId |-> 1, vendorId |-> 9, liked |-> TRUE, score |-> 3],
   [userId |-> 9, vendorId |-> 1, liked |-> TRUE, score |-> 3]}

VendorExists(vendorId) == \E k \in 1..Len(vendors) : vendors[k].id = vendorId

\* score ?? null
ScoreOrNull(score) == IF score = NotGiven THEN NoScore ELSE score

\* a row is created whether or not the pair has one
UpsertRowAlwaysCreating(rows, input) ==
  Append(rows, Interaction(input.userId, input.vendorId, input.liked,
                           ScoreOrNull(input.score)))

\* prisma.interaction.upsert on the unique (userId, vendorId)
UpsertRow(rows, input) ==
  IF \E i \in 1..Len(rows) :
       rows[i].userId = input.userId /\ rows[i].vendorId = input.vendorId
  THEN [i \in 1..Len(rows) |->
          IF rows[i].userId = input.userId /\ rows[i].vendorId = input.vendorId
          THEN [rows[i] EXCEPT !.liked = input.liked, !.score = ScoreOrNull(input.score)]
          ELSE rows[i]]
  ELSE Append(rows, Interaction(input.userId, input.vendorId, input.liked,
                                ScoreOrNull(input.score)))

\* InteractionsService.upsertInteraction: null for an unknown user or vendor
UpsertInteraction(input) ==
  /\ ProcessUp
  /\ writes < MaxWrites
  /\ IF input.userId \in DOMAIN users /\ VendorExists(input.vendorId)
     THEN /\ interactions' = UpsertRow(interactions, input)
          /\ writes' = writes + 1
     ELSE UNCHANGED <<interactions, writes>>
  /\ UNCHANGED <<users, vendors, req, prev, calc, req2, ops, resp>>

\* the user each update is sent for
TraitUpdateTargets == {<<1, [k \in {"adventurous"} |-> 0]>>,
                       <<2, [k \in {"loyal", "patient"} |-> 4]>>}

\* UsersService.updateTraits(id, { traits }): the given traits replace the
\* stored ones and the embedding is regenerated from the new prompt
UpdateTraits(id, traitUpdate) ==
  /\ ProcessUp
  /\ writes < MaxWrites
  /\ id \in DOMAIN users
  /\ LET existing == users[id]
         updatedTraits == [f \in DOMAIN existing.traits |->
                             IF f \in DOMAIN traitUpdate THEN traitUpdate[f]
                             ELSE existing.traits[f]]
         prompt == buildUserPrompt(existing.name, updatedTraits,
                                   existing.behaviorPreferences, existing.isTestUser)
     IN users' = [users EXCEPT ![id].traits = updatedTraits,
                               ![id].embedding = Embed(prompt)]
  /\ writes' = writes + 1
  /\ UNCHANGED <<vendors, interactions, req, prev, calc, req2, ops, resp>>

(***************************************************************************)
(* A second computeRecommendations call in flight beside the first         *)
(*                                                                         *)
(* RecommendationsService and EmbeddingsService hold no field that a call  *)
(* writes: a call's state is its own locals (req for the first call, req2  *)
(* for the second), and each generateEmbedding spawns its own child.  What *)
(* the two calls share is the storage they read and the process they run   *)
(* in: an uncaught error of either ends both.                              *)
(***************************************************************************)
BothUp == req.pc # "crashed" /\ req2.pc # "crashed"

OtherCallComputeRecommendations(userId, testMode, raw, debug) ==
  /\ BothUp
  /\ req2.pc = "idle"
  /\ req2' = NewCall(userId, testMode, raw, debug)
  /\ UNCHANGED <<users, vendors, interactions, req, prev, writes, calc, ops, resp>>

OtherFindUserAndResolve ==
  /\ BothUp
  /\ req2.pc = "findUser"
  /\ req2' = ResolveRequest(req2, FindUniqueUser(req2.userId))
  /\ UNCHANGED <<users, vendors, interactions, req, prev, writes, calc, ops, resp>>

OtherGenerateEmbeddingResolves ==
  /\ BothUp
  /\ req2.pc = "generating"
  /\ req2' = [req2 EXCEPT !.pc = "findVendors", !.embOutcome = "resolved",
                          !.userEmbedding = Embed(req2.userPrompt)]
  /\ UNCHANGED <<users, vendors, interactions, req, prev, writes, calc, ops, resp>>

OtherGenerateEmbeddingRejects ==
  /\ BothUp
  /\ req2.pc = "generating"
  /\ \E message \in {"Failed to generate embedding", "Failed to parse embedding output"} :
       req2' = [req2 EXCEPT !.pc = "threw", !.embOutcome = "rejected", !.error = message]
  /\ UNCHANGED <<users, vendors, interactions, req, prev, writes, calc, ops, resp>>

OtherGenerateEmbeddingSpawnError ==
  /\ BothUp
  /\ req2.pc = "generating"
  /\ req2' = [req2 EXCEPT !.pc = "crashed", !.embOutcome = "spawnError"]
  /\ UNCHANGED <<users, vendors, interactions, req, prev, writes, calc, ops, resp>>

OtherFindVendorsAndRank ==
  /\ BothUp
  /\ req2.pc = "findVendors"
  /\ \E sorted \in sortOutcomes(ScoreVendors(vendors, req2)) :
       req2' = [req2 EXCEPT !.pc = "returned", !.scored = TRUE,
                            !.result = RankedResult(req2, sorted)]
  /\ UNCHANGED <<users, vendors, interactions, req, prev, writes, calc, ops, resp>>

(***************************************************************************)
(* UsersService.create, updateTraits and updateBehaviorPreferences,        *)
(* await by await                                                          *)
(*                                                                         *)
(* ops[o].pc: "idle" (not called), "findUnique" (awaiting                  *)
(* user.findUnique), "generating" (awaiting generateEmbedding), "writing"  *)
(* (awaiting user.create or user.update), "done" (returned), "threw"       *)
(* (rejected), "crashed" (an uncaught error ended the process).            *)
(***************************************************************************)
OpIds == {"first", "second"}

NoInput ==
  [name |-> "", traits |-> [k \in {} |-> 0], behaviorPreferences |-> Null,
   isTestUser |-> FALSE]

IdleOp ==
  [pc |-> "idle", kind |-> "none", id |-> 0, input |-> NoInput,
   name |-> "", traits |-> NoUser.traits, behaviorPreferences |-> Null,
   isTestUser |-> FALSE, prompt |-> <<>>, embedding |-> <<>>, returned |-> "none"]

\* no UsersService operation is in flight
NoOps == [o \in OpIds |-> IdleOp]

\* the calls made: an update of one trait and an update of the behaviour
\* preferences of user 1, an update of a user that is not stored, and the
\* creation of a user (Null stands for a field that is not given)
UsersCalls ==
  {[kind |-> "updateTraits", id |-> 1,
    input |-> [NoInput EXCEPT !.traits = [k \in {"adventurous"} |-> 0]]],
   [kind |-> "updateBehaviorPreferences", id |-> 1,
    input |-> [NoInput EXCEPT !.behaviorPreferences = "{notes:loud}"]],
   [kind |-> "updateTraits", id |-> 9,
    input |-> [NoInput EXCEPT !.traits = [k \in {"loyal"} |-> 4]]],
   [kind |-> "create", id |-> 0,
    input |-> [name |-> "Careful Casey",
               traits |-> TraitsOf(<<1, 2, 0, 2, 5, 3, 5, 5, 4>>),
               behaviorPreferences |-> "{notes:calm}", isTestUser |-> TRUE]]}

OpsUp == \A o \in OpIds : ops[o].pc # "crashed"

\* x ?? y
Coalesce(x, y) == IF x # Null THEN x ELSE y

\* create builds its prompt from the input (lines 91-97); the updates first
\* read the user (lines 122, 158)
CallUsersService(o, call) ==
  /\ OpsUp
  /\ ops[o].pc = "idle"
  /\ ops' = [ops EXCEPT ![o] =
       IF call.kind = "create"
       THEN [IdleOp EXCEPT !.pc = "generating", !.kind = call.kind,
               !.input = call.input, !.name = call.input.name,
               !.traits = call.input.traits,
               !.behaviorPreferences = call.input.behaviorPreferences,
               !.isTestUser = call.input.isTestUser,
               !.prompt = buildUserPrompt(call.input.name, call.input.traits,
                                          call.input.behaviorPreferences,
                                          call.input.isTestUser)]
       ELSE [IdleOp EXCEPT !.pc = "findUnique", !.kind = call.kind,
               !.id = call.id, !.input = call.input]]
  /\ UNCHANGED <<users, vendors, interactions, req, prev, writes, calc, req2, resp>>

\* the traits and behaviour preferences an update will store, from the user
\* as read: lines 127-143 and 163-179
OpAfterFindUnique(op, existing) ==
  LET traits == [f \in DOMAIN existing.traits |->
                   IF op.kind = "updateTraits" /\ f \in DOMAIN op.input.traits
                   THEN op.input.traits[f] ELSE existing.traits[f]]
      behaviorPreferences ==
        IF op.kind = "updateTraits"
        THEN Coalesce(op.input.behaviorPreferences, existing.behaviorPreferences)
        ELSE op.input.behaviorPreferences
  IN [op EXCEPT !.pc = "generating", !.name = existing.name, !.traits = traits,
                !.behaviorPreferences = behaviorPreferences,
                !.isTestUser = existing.isTestUser,
                !.prompt = buildUserPrompt(existing.name, traits,
                                           behaviorPreferences, existing.isTestUser)]

\* user.findUnique returns: `if (!existing) return null`, else the prompt is
\* built and generateEmbedding called
UsersFindUnique(o) ==
  /\ OpsUp
  /\ ops[o].pc = "findUnique"
  /\ ops' = [ops EXCEPT ![o] =
       IF ops[o].id \in DOMAIN users
       THEN OpAfterFindUnique(ops[o], users[ops[o].id])
       ELSE [ops[o] EXCEPT !.pc = "done", !.returned = "null"]]
  /\ UNCHANGED <<users, vendors, interactions, req, prev, writes, calc, req2, resp>>

\* generateEmbedding resolves, and user.create or user.update is called
UsersGenerateEmbeddingResolves(o) ==
  /\ OpsUp
  /\ ops[o].pc = "generating"
  /\ ops' = [ops EXCEPT ![o].pc = "writing", ![o].embedding = Embed(ops[o].prompt)]
  /\ UNCHANGED <<users, vendors, interactions, req, prev, writes, calc, req2, resp>>

\* generateEmbedding rejects: the operation rejects and writes nothing
UsersGenerateEmbeddingRejects(o) ==
  /\ OpsUp
  /\ ops[o].pc = "generating"
  /\ ops' = [ops EXCEPT ![o].pc = "threw"]
  /\ UNCHANGED <<users, vendors, interactions, req, prev, writes, calc, req2, resp>>

\* the child cannot be spawned: the uncaught error ends the process
UsersGenerateEmbeddingSpawnError(o) ==
  /\ OpsUp
  /\ ops[o].pc = "generating"
  /\ ops' = [ops EXCEPT ![o].pc = "crashed"]
  /\ UNCHANGED <<users, vendors, interactions, req, prev, writes, calc, req2, resp>>

\* the id the database gives the next user
NextUserId == 1 + Cardinality(DOMAIN users)

\* the row user.create or user.update leaves: create writes every field
\* (lines 99-107), updateTraits the traits, the embedding and the behaviour
\* preferences (lines 147-154), updateBehaviorPreferences the behaviour
\* preferences and the embedding (lines 183-189)
WrittenUser(op, id) ==
  IF op.kind = "create"
  THEN [id |-> id, name |-> op.name, traits |-> op.traits,
        behaviorPreferences |-> op.behaviorPreferences,
        isTestUser |-> op.isTestUser, embedding |-> op.embedding]
  ELSE IF op.kind = "updateTraits"
  THEN [users[id] EXCEPT !.traits = op.traits, !.embedding = op.embedding,
                         !.behaviorPreferences = op.behaviorPreferences]
  ELSE [users[id] EXCEPT !.behaviorPreferences = op.behaviorPreferences,
                         !.embedding = op.embedding]

\* user.create or user.update is applied and the operation returns the row
UsersWrite(o) ==
  /\ OpsUp
  /\ ops[o].pc = "writing"
  /\ LET id == IF ops[o].kind = "create" THEN NextUserId ELSE ops[o].id
     IN users' = [u \in DOMAIN users \cup {id} |->
                    IF u = id THEN WrittenUser(ops[o], id) ELSE users[u]]
  /\ ops' = [ops EXCEPT ![o].pc = "done", ![o].returned = "user"]
  /\ UNCHANGED <<vendors, interactions, req, prev, writes, calc, req2, resp>>

(***************************************************************************)
(* The controllers                                                         *)
(*                                                                         *)
(* resp holds the last answer of each endpoint: the route that answered    *)
(* ("none" before any answer), the exception thrown to the client ("none"  *)
(* when the handler returned its result) and the exception's message.      *)
(***************************************************************************)
Answer(route, exception, message) ==
  [route |-> route, exception |-> exception, message |-> message]

NoAnswer == Answer("none", "none", "")

\* no endpoint has answered
NoResponse == [recommendations |-> NoAnswer, interactions |-> NoAnswer]

\* @Controller('recommendations') or @Controller('debug/recommendations')
RecommendationsRoute(debug) ==
  IF debug THEN "debug/recommendations/:userId" ELSE "recommendations/:userId"

\* lines 23-31 of both controllers: a null result throws
\* BadRequestException('User not found') inside the try block, and the catch
\* block rethrows every error as BadRequestException(err.message)
RecommendationsAnswer(r) ==
  IF r.pc = "returned" /\ r.result.kind = "ranked"
  THEN Answer(RecommendationsRoute(r.debug), "none", "")
  ELSE IF r.pc = "returned"
  THEN Answer(RecommendationsRoute(r.debug), "BadRequestException", "User not found")
  ELSE Answer(RecommendationsRoute(r.debug), "BadRequestException", r.error)

\* lines 16-19: a userId parameter that is no number
RecommendationsControllerRejectsUserId(debug) ==
  /\ req.pc = "idle"
  /\ resp.recommendations = NoAnswer
  /\ resp' = [resp EXCEPT !.recommendations =
                Answer(RecommendationsRoute(debug), "BadRequestException",
                       "Invalid user id")]
  /\ UNCHANGED <<users, vendors, interactions, req, prev, writes, calc, req2, ops>>

\* the handler's await of the service returns or throws
RecommendationsControllerAnswers ==
  /\ Finished(req)
  /\ resp.recommendations = NoAnswer
  /\ resp' = [resp EXCEPT !.recommendations = RecommendationsAnswer(req)]
  /\ UNCHANGED <<users, vendors, interactions, req, prev, writes, calc, req2, ops>>

\* the bodies posted: the inputs of upsertInteraction and two that
\* interactionSchema rejects
PostedBodies ==
  UpsertInputs
  \cup {[userId |-> 1, vendorId |-> 1, liked |-> TRUE, score |-> 9],
        [userId |-> 0, vendorId |-> 1, liked |-> TRUE, score |-> NotGiven]}

\* interactionSchema.parse(body)
BodyValid(body) ==
  /\ body.userId > 0
  /\ body.vendorId > 0
  /\ body.liked \in BOOLEAN
  /\ body.score = NotGiven \/ body.score \in 1..5

\* what upsertInteraction returns: null, or the row of the pair
UpsertReturn(input) ==
  IF input.userId \in DOMAIN users /\ VendorExists(input.vendorId)
  THEN [kind |-> "row",
        row |-> Interaction(input.userId, input.vendorId, input.liked,
                            ScoreOrNull(input.score))]
  ELSE [kind |-> "null", row |-> Interaction(0, 0, FALSE, NoScore)]

\* InteractionsController.upsert, lines 12-24 of the controller
InteractionsAnswer(body) ==
  IF ~BodyValid(body)
  THEN Answer("interactions", "BadRequestException", "ZodError")
  ELSE IF UpsertReturn(body).kind = "null"
  THEN Answer("interactions", "BadRequestException", "User or vendor not found")
  ELSE Answer("interactions", "none", "")

\* the upsert is made for every body, whether or not its user and vendor exist
InteractionsControllerUpsertWithoutLookup(body) ==
  /\ ProcessUp
  /\ writes < MaxWrites
  /\ resp' = [resp EXCEPT !.interactions = InteractionsAnswer(body)]
  /\ interactions' = UpsertRow(interactions, body)
  /\ writes' = writes + 1
  /\ UNCHANGED <<users, vendors, req, prev, calc, req2, ops>>

\* POST /interactions: the body is parsed, upsertInteraction is awaited and
\* its result returned, or a BadRequestException is thrown
InteractionsControllerUpsert(body) ==
  /\ ProcessUp
  /\ resp' = [resp EXCEPT !.interactions = InteractionsAnswer(body)]
  /\ IF BodyValid(body) /\ UpsertReturn(body).kind = "row"
     THEN /\ writes < MaxWrites
          /\ interactions' = UpsertRow(interactions, body)
          /\ writes' = writes + 1
     ELSE UNCHANGED <<interactions, writes>>
  /\ UNCHANGED <<users, vendors, req, prev, calc, req2, ops>>

(***************************************************************************)
(* The vector utilities and the behaviour score, called on their own       *)
(*                                                                         *)
(* calc holds one call of a function and what it returned.  A vector of    *)
(* fewer than twelve traits stands for the vendor whose other traits are   *)
(* 0: a 0 adds nothing to a sum of the loops.                              *)
(***************************************************************************)
\* the longest vector of trait scalars drawn
MaxLen == 2

\* a number as a double, and a vector of numbers as a vector of doubles
F64Vector(values) == [i \in 1..Len(values) |-> F64OfInt(values[i])]

\* trait scalars drawn, of the range [0, 5]
TraitScalars == {F64Zero, F64OfInt(MaxTrait)}

\* numbers no trait holds: negative ones, and one whose square overflows
WideScalars == {F64OfInt(-2), F64OfInt(-4), F64Pow2(600)}

\* the double nearest to num / den, as a number literal is read
Decimal(num, den) == F64Div(F64OfInt(num), F64OfInt(den))

\* two vendors of fractional traits, [2, 4.9, 2] and [1.8, 4.41, 1.8]; their
\* other traits are 0, which adds nothing to the sums of cosineSimilarity
FractionalVectors ==
  {<<Decimal(20, 10), Decimal(49, 10), Decimal(20, 10)>>,
   <<Decimal(18, 10), Decimal(441, 100), Decimal(18, 10)>>}

\* the vectors of trait scalars drawn, and the trait vectors of the seeded vendors
TraitVectors ==
  UNION {[1..n -> TraitScalars] : n \in 0..MaxLen}
  \cup {F64Vector(<<3, 5>>), F64Vector(<<5, 3>>)}
  \cup FractionalVectors
  \cup {F64Vector(getVendorTraitVector(SeedVendors[k])) : k \in 1..Len(SeedVendors)}

WideVectors ==
  LET scalars == WideScalars \cup {F64OfInt(3)}
  IN {<<x>> : x \in scalars} \cup {<<x, y>> : x, y \in scalars}

Vectors == TraitVectors \cup WideVectors

\* what the user did with vendor 1, the vendor scored, and with vendor 2
InteractionLists ==
  LET about(vendorId) ==
        {<<>>} \cup {<<[vendorId |-> vendorId, liked |-> liked, score |-> NoScore]>> :
                       liked \in BOOLEAN}
  IN {first \o second : first \in about(1), second \in about(2)}

\* lines 331-341 for vendor 1 with the traits v and vendor 2 with the traits w
LikedMapOf(userInteractions, v, w) ==
  [id \in {userInteractions[i].vendorId :
             i \in {i \in 1..Len(userInteractions) : userInteractions[i].liked}} |->
     IF id = 1 THEN v ELSE w]

Calc(op, a, b, userInteractions, out) ==
  [op |-> op, a |-> a, b |-> b, userInteractions |-> userInteractions, out |-> out]

IdleCalc == Calc("idle", <<>>, <<>>, <<>>, <<>>)

CallCosineSimilarity(a, b) ==
  /\ calc.op = "idle"
  /\ calc' = Calc("cosineSimilarity", a, b, <<>>, cosineSimilarityF64(a, b))
  /\ UNCHANGED <<users, vendors, interactions, req, prev, writes, req2, ops, resp>>

CallNormalizeVector(values) ==
  /\ calc.op = "idle"
  /\ calc' = Calc("normalizeVector", values, <<>>, <<>>, normalizeVectorF64(values))
  /\ UNCHANGED <<users, vendors, interactions, req, prev, writes, req2, ops, resp>>

\* vendor 2's traits play no part unless the user liked vendor 2
CallComputeBehaviorScoreForVendor(userInteractions, v, w) ==
  /\ calc.op = "idle"
  /\ Len(w) = Len(v)
  /\ 2 \notin DOMAIN LikedMapOf(userInteractions, v, w) => w = v
  /\ calc' = Calc("computeBehaviorScoreForVendor", v, w, userInteractions,
                  computeBehaviorScoreForVendorF64(1, userInteractions, v,
                    LikedMapOf(userInteractions, v, w)))
  /\ UNCHANGED <<users, vendors, interactions, req, prev, writes, req2, ops, resp>>

CalcReturns ==
  /\ calc.op # "idle"
  /\ calc' = IdleCalc
  /\ UNCHANGED <<users, vendors, interactions, req, prev, writes, req2, ops, resp>>

(***************************************************************************)
(* Specification                                                           *)
(***************************************************************************)
Init ==
  /\ users = SeedUsers
  /\ vendors = SeedVendors
  /\ interactions = SeedInteractions
  /\ req = IdleRequest
  /\ prev = NoPrev
  /\ writes = 0
  /\ calc = IdleCalc
  /\ req2 = IdleRequest
  /\ ops = NoOps
  /\ resp = NoResponse

Next ==
  \/ \E userId \in RequestUserIds, testMode \in BOOLEAN, raw \in RawPayloads,
        debug \in BOOLEAN :
       CallComputeRecommendations(userId, testMode, raw, debug)
  \/ CallAgain
  \/ FindUserAndResolve
  \/ GenerateEmbeddingResolves
  \/ GenerateEmbeddingRejects
  \/ GenerateEmbeddingSpawnError
  \/ FindVendorsAndRank
  \/ \E input \in UpsertInputs : UpsertInteraction(input)
  \/ \E target \in TraitUpdateTargets : UpdateTraits(target[1], target[2])

Spec == Init /\ [][Next]_vars

\* the payloads sent to the endpoints: none, one that is not JSON, one of a
\* trait out of range and a well-formed one
EndpointPayloads ==
  {NoPayload, Payload("notJson", EmptyObject),
   Payload("object", [k \in {"Adventurous"} |-> Num(7)]),
   Payload("object", [k \in {"Adventurous"} |-> Num(1)])}

\* one request to a recommendations endpoint and the posts to the
\* interactions endpoint, up to the answers
EndpointNext ==
  \/ \E userId \in RequestUserIds, testMode \in BOOLEAN, raw \in EndpointPayloads,
        debug \in BOOLEAN :
       /\ resp.recommendations = NoAnswer
       /\ CallComputeRecommendations(userId, testMode, raw, debug)
  \/ \E debug \in BOOLEAN : RecommendationsControllerRejectsUserId(debug)
  \/ FindUserAndResolve
  \/ GenerateEmbeddingResolves
  \/ GenerateEmbeddingRejects
  \/ GenerateEmbeddingSpawnError
  \/ FindVendorsAndRank
  \/ RecommendationsControllerAnswers
  \/ \E body \in PostedBodies : InteractionsControllerUpsert(body)

EndpointSpec == Init /\ [][EndpointNext]_vars

\* the arguments of the two concurrent calls
ConcurrentPayloads ==
  {NoPayload,
   Payload("object", [k \in {"Adventurous", "embeddingWeight"} |->
                        IF k = "Adventurous" THEN Num(1) ELSE Num(1)])}

\* two calls interleaved over a storage that is not written
ConcurrentNext ==
  \/ \E userId \in RequestUserIds, testMode \in BOOLEAN, raw \in ConcurrentPayloads :
       BothUp /\ CallComputeRecommendations(userId, testMode, raw, FALSE)
  \/ BothUp /\ FindUserAndResolve
  \/ BothUp /\ GenerateEmbeddingResolves
  \/ BothUp /\ GenerateEmbeddingRejects
  \/ BothUp /\ GenerateEmbeddingSpawnError
  \/ BothUp /\ FindVendorsAndRank
  \/ \E userId \in RequestUserIds, testMode \in BOOLEAN, raw \in ConcurrentPayloads :
       OtherCallComputeRecommendations(userId, testMode, raw, TRUE)
  \/ OtherFindUserAndResolve
  \/ OtherGenerateEmbeddingResolves
  \/ OtherGenerateEmbeddingRejects
  \/ OtherGenerateEmbeddingSpawnError
  \/ OtherFindVendorsAndRank

ConcurrentSpec == Init /\ [][ConcurrentNext]_vars

\* two UsersService operations, await by await
UsersNext ==
  \/ \E o \in OpIds, call \in UsersCalls : CallUsersService(o, call)
  \/ \E o \in OpIds : UsersFindUnique(o)
  \/ \E o \in OpIds : UsersGenerateEmbeddingResolves(o)
  \/ \E o \in OpIds : UsersGenerateEmbeddingRejects(o)
  \/ \E o \in OpIds : UsersGenerateEmbeddingSpawnError(o)
  \/ \E o \in OpIds : UsersWrite(o)

UsersSpec == Init /\ [][UsersNext]_vars

VectorNext ==
  \/ \E a \in Vectors, b \in Vectors : CallCosineSimilarity(a, b)
  \/ \E values \in Vectors : CallNormalizeVector(values)
  \/ \E userInteractions \in InteractionLists, v \in TraitVectors, w \in TraitVectors :
       CallComputeBehaviorScoreForVendor(userInteractions, v, w)
  \/ CalcReturns

\* the functions of doubles, called one at a time on the inputs drawn
VectorSpec == Init /\ [][VectorNext]_vars

(***************************************************************************)
(* Properties                                                              *)
(***************************************************************************)
\* the payloads that are not well-formed adjustments, listed by what they hold
MalformedPayloads ==
  {Payload("notJson", EmptyObject), Payload("jsonNull", EmptyObject),
   Payload("jsonArray", EmptyObject)}
  \cup {Payload("object", o) : o \in MalformedObjects}

ForStoredUser(r) == r.pc # "idle" /\ r.userId \in UserIds

\* the call has passed lines 274-323: the embedding source is decided
Decided(r) ==
  \/ r.pc \in {"generating", "findVendors", "crashed"}
  \/ r.pc = "returned" /\ r.result.kind = "ranked"
  \/ r.pc = "threw" /\ r.embOutcome = "rejected"

Ranked(r) == r.pc = "returned" /\ r.result.kind = "ranked"

\* C1: for a stored user and a malformed adjustments payload, the call ends in
\* the validation error "Invalid adjustments", and at no point of the call has
\* the embedding generator been invoked, a vendor been scored or a result built.
C1_MalformedAdjustmentsFailBeforeEmbedding ==
  (ForStoredUser(req) /\ req.raw \in MalformedPayloads) =>
    /\ req.embCalls = 0
    /\ req.embOutcome = "none"
    /\ ~req.scored
    /\ req.result.kind = "none"
    /\ req.pc \in {"findUser", "threw"}
    /\ (req.pc = "threw" => req.error = "Invalid adjustments")

C1_Witness ==
  /\ req.pc = "threw"
  /\ req.userId \in UserIds
  /\ req.testMode
  /\ req.raw = Payload("object", [k \in {"Adventurous"} |-> Num(7)])
  /\ req.error = "Invalid adjustments"

\* at least one field of the adjustments schema is present in the payload
AnyAdjustmentFieldSupplied(raw) ==
  raw.kind = "object" /\ (DOMAIN raw.obj) \cap SchemaKeys # {}

\* the embedding the scores of a ranked result were computed from
EmbeddingScoresComeFrom(r, embedding) ==
  \A k \in 1..Len(r.result.recommendations) :
    LET item == r.result.recommendations[k]
    IN item.scores.embeddingScore = cosineSimilarity(embedding, item.vendor.embedding)

\* C2 as stated: a fresh embedding is requested iff testMode or at least one
\* adjustment field was supplied; otherwise (also for a payload that supplies
\* no field) the stored embedding is used for scoring.
C2_FreshEmbeddingIffTestModeOrAnyField ==
  Decided(req) =>
    /\ (req.embCalls > 0) <=> (req.testMode \/ AnyAdjustmentFieldSupplied(req.raw))
    /\ (Ranked(req) /\ ~(req.testMode \/ AnyAdjustmentFieldSupplied(req.raw)))
         => EmbeddingScoresComeFrom(req, req.user.embedding)

\* C2 (amended): a fresh embedding is requested iff testMode or a non-empty
\* adjustments payload was supplied, whether or not it holds any adjustment
\* field ("{}" and a payload of unknown keys included); only without testMode
\* and without a payload is the stored embedding used unchanged for scoring.
C2_FreshEmbeddingIffTestModeOrPayload ==
  Decided(req) =>
    LET fresh == req.testMode \/ req.raw.kind = "object"
    IN /\ (req.embCalls > 0) <=> fresh
       /\ req.embCalls <= 1
       /\ (Ranked(req) /\ fresh) =>
            /\ req.embOutcome = "resolved"
            /\ EmbeddingScoresComeFrom(req, Embed(req.userPrompt))
       /\ (Ranked(req) /\ ~fresh) =>
            /\ req.embOutcome = "none"
            /\ EmbeddingScoresComeFrom(req, req.user.embedding)

\* an empty-object payload without testMode has asked the generator, and the
\* generated vector, which differs from the stored one, has scored the vendors
C2_Witness ==
  /\ Ranked(req)
  /\ ~req.testMode
  /\ req.raw = Payload("object", EmptyObject)
  /\ req.embCalls = 1
  /\ Embed(req.userPrompt) # req.user.embedding
  /\ \E k \in 1..Len(req.result.recommendations) :
       LET item == req.result.recommendations[k]
       IN item.scores.embeddingScore
            # cosineSimilarity(req.user.embedding, item.vendor.embedding)

\* C3: for a userId storage does not hold, the call returns null as a value:
\* its promise resolves, it does not reject, whatever the other arguments.
C3_UnknownUserReturnsNull ==
  (req.userId \notin UserIds /\ req.pc \notin {"idle", "findUser"}) =>
    /\ req.pc = "returned"
    /\ req.result.kind = "null"
    /\ req.error = ""
    /\ req.embCalls = 0

C3_Witness ==
  /\ req.userId \notin UserIds
  /\ req.pc = "returned"
  /\ req.result.kind = "null"
  /\ req.testMode
  /\ req.raw \in MalformedPayloads

C5_CallLeavesStorageUnchanged ==
  [][req' # req => UNCHANGED <<users, vendors, interactions>>]_vars

\* a call with a trait override has returned a ranking from a regenerated
\* embedding, and storage still holds the user's own traits and embedding
C5_Witness ==
  /\ Ranked(req)
  /\ req.raw = Payload("object", [k \in {"Adventurous"} |-> Num(0)])
  /\ req.embOutcome = "resolved"
  /\ users[req.userId].traits # req.traits
  /\ users[req.userId].embedding # req.userEmbedding
  /\ users = SeedUsers
  /\ interactions = SeedInteractions

\* x >= y for two fractions with positive denominators
FracGeq(x, y) == x.num * y.den >= y.num * x.den

VendorOrder(r) ==
  [k \in 1..Len(r.result.recommendations) |-> r.result.recommendations[k].vendor.id]

\* C6: in a returned ranking every entry's finalScore is greater than or equal
\* to the finalScore of the entry after it.
C6_RankedByFinalScoreDescending ==
  Ranked(req) =>
    \A k \in 1..(Len(req.result.recommendations) - 1) :
      FracGeq(req.result.recommendations[k].scores.finalScore,
              req.result.recommendations[k + 1].scores.finalScore)

\* a ranking of all the vendors that is not in storage order and holds a
\* strict descent
C6_Witness ==
  /\ Ranked(req)
  /\ Len(req.result.recommendations) = Len(vendors)
  /\ VendorOrder(req) # [k \in 1..Len(vendors) |-> vendors[k].id]
  /\ \E k \in 1..(Len(req.result.recommendations) - 1) :
       ~FracGeq(req.result.recommendations[k + 1].scores.finalScore,
                req.result.recommendations[k].scores.finalScore)

\* vendor id -> its scores in a ranked result
ScoresByVendor(r) ==
  {<<r.result.recommendations[k].vendor.id, r.result.recommendations[k].scores>> :
     k \in 1..Len(r.result.recommendations)}

\* the settled call before this one, with the same arguments, and no storage
\* write since that call began
RepeatedOverSameStorage ==
  /\ prev.valid
  /\ prev.call.pc = "returned"
  /\ req.pc = "returned"
  /\ prev.call.ver0 = writes

\* C7: a call without adjustments and with testMode = false, repeated with no
\* storage write in between, yields the same embeddingScore, traitScore,
\* behaviorScore and finalScore for every vendor.
C7_RepeatedCallSameScores ==
  (RepeatedOverSameStorage /\ ~req.testMode /\ req.raw = NoPayload) =>
    /\ req.result.kind = prev.call.result.kind
    /\ ScoresByVendor(req) = ScoresByVendor(prev.call)

\* the repeated call ranks for a user who has a liked vendor, with scores that
\* differ between vendors
C7_Witness ==
  /\ RepeatedOverSameStorage
  /\ ~req.testMode
  /\ req.raw = NoPayload
  /\ Ranked(req)
  /\ Ranked(prev.call)
  /\ \E i \in 1..Len(req.user.interactions) : req.user.interactions[i].liked
  /\ Cardinality({sc[2].behaviorScore : sc \in ScoresByVendor(req)}) > 1
  /\ Cardinality({sc[2].embeddingScore : sc \in ScoresByVendor(req)}) > 1

\* C8: a call repeated with the same arguments over the same storage and with
\* the same outcome of the embedding generator returns the vendors in the same
\* order, vendors of equal finalScore included.
C8_RepeatedCallSameOrder ==
  (RepeatedOverSameStorage /\ req.embOutcome = prev.call.embOutcome) =>
    /\ req.result.kind = prev.call.result.kind
    /\ VendorOrder(req) = VendorOrder(prev.call)

\* the repeated ranking holds two neighbours of equal finalScore
C8_Witness ==
  /\ RepeatedOverSameStorage
  /\ Ranked(req)
  /\ Ranked(prev.call)
  /\ req.embOutcome = "resolved"
  /\ \E k \in 1..(Len(req.result.recommendations) - 1) :
       LET a == req.result.recommendations[k].scores.finalScore
           b == req.result.recommendations[k + 1].scores.finalScore
       IN a.num * b.den = b.num * a.den /\ a.num > 0

WeightTotal(w) == w.embedding + w.traits + w.behavior

C10_ZeroWeightsFallBackToDivisorOne ==
  (ForStoredUser(req) /\ req.raw = Payload("object", ZeroWeights)
   /\ req.pc # "findUser") =>
    /\ Decided(req)
    /\ req.normalizedWeights.embedding = Frac(0, FallbackWeightSum)
    /\ req.normalizedWeights.traits = Frac(0, FallbackWeightSum)
    /\ req.normalizedWeights.behavior = Frac(0, FallbackWeightSum)
    /\ req.normalizedWeights.embedding.num + req.normalizedWeights.traits.num
       + req.normalizedWeights.behavior.num # FallbackWeightSum
    /\ (req.embOutcome = "resolved" => req.pc \in {"findVendors", "returned"})
    /\ Ranked(req) =>
         /\ req.result.weights = req.normalizedWeights
         /\ \A k \in 1..Len(req.result.recommendations) :
              req.result.recommendations[k].scores.finalScore
                = Frac(0, FallbackWeightSum)

\* the zero-weight call has ranked vendors whose component scores are not 0
C10_Witness ==
  /\ Ranked(req)
  /\ req.raw = Payload("object", ZeroWeights)
  /\ Len(req.result.recommendations) = Len(vendors)
  /\ \E k \in 1..Len(req.result.recommendations) :
       /\ req.result.recommendations[k].scores.embeddingScore > 0
       /\ req.result.recommendations[k].scores.behaviorScore > 0

\* the value a well-formed payload gives a key, or the fallback
SuppliedOr(r, key, fallback) ==
  IF r.raw.kind = "object" /\ key \in DOMAIN r.raw.obj THEN r.raw.obj[key].n
  ELSE fallback

\* the trait values C11 expects, in the order of the trait vector
ExpectedTraitValues(r) ==
  [i \in 1..Len(TraitKeys) |->
     SuppliedOr(r, TraitKeys[i], r.user.traits[TraitFields[i]])]

\* C11: each of the nine effective traits is the adjustment's value when the
\* payload holds that field (0 included) and the value of the user read from
\* storage otherwise; the prompt, the trait vector and the returned user
\* context carry these values.
C11_EffectiveTraitIsOverrideElseStored ==
  Decided(req) =>
    LET expected == ExpectedTraitValues(req)
    IN /\ \A i \in 1..Len(TraitKeys) :
            /\ req.traits[TraitFields[i]] = expected[i]
            /\ req.userPrompt[i + 2] = Line(TraitKeys[i], expected[i], "")
       /\ Ranked(req) =>
            /\ \A i \in 1..Len(TraitKeys) :
                 req.result.traits[TraitFields[i]] = expected[i]
            /\ req.result.debug =>
                 /\ req.result.userTraitVector = expected
                 /\ \A i \in 1..Len(TraitKeys) :
                      req.result.prompt[i + 2] = Line(TraitKeys[i], expected[i], "")

\* a ranking with debug for user 1 (adventurous 5, loyal 3) under the payload
\* {Adventurous: 0}: the override of 0 is used, the other traits are stored ones
C11_Witness ==
  /\ Ranked(req)
  /\ req.result.debug
  /\ req.userId = 1
  /\ req.raw = Payload("object", [k \in {"Adventurous"} |-> Num(0)])
  /\ req.user.traits["adventurous"] = 5
  /\ req.result.traits["adventurous"] = 0
  /\ req.result.userTraitVector[1] = 0
  /\ req.result.traits["loyal"] = 3

\* C12: each effective weight (in tenths) is the adjustment's value when the
\* payload holds that field (0 included) and otherwise its default, 0.5 for
\* embedding, 0.3 for traits, 0.2 for behavior, whatever the other two are.
C12_EffectiveWeightIsOverrideElseDefault ==
  Decided(req) =>
    /\ req.weights.embedding = SuppliedOr(req, "embeddingWeight", 5)
    /\ req.weights.traits = SuppliedOr(req, "traitWeight", 3)
    /\ req.weights.behavior = SuppliedOr(req, "behaviorWeight", 2)

\* {traitWeight: 0.1, behaviorWeight: 0.7} leaves the embedding weight at 0.5
C12_Witness ==
  /\ Ranked(req)
  /\ req.raw = Payload("object", [k \in {"traitWeight", "behaviorWeight"} |->
                                   IF k = "traitWeight" THEN Num(1) ELSE Num(7)])
  /\ req.weights = [embedding |-> 5, traits |-> 1, behavior |-> 7]

\* the behaviorPreferences C13 expects: the payload's, else the stored user's
ExpectedBehaviorPreferences(r) ==
  IF r.raw.kind = "object" /\ "behaviorPreferences" \in DOMAIN r.raw.obj
  THEN r.raw.obj["behaviorPreferences"].s
  ELSE r.user.behaviorPreferences

\* C13: the effective behaviorPreferences is the adjustment's when the payload
\* holds one, else the stored user's, else absent; the returned user context
\* carries it, and the prompt ends in its line exactly when it is present.
C13_EffectiveBehaviorPreferences ==
  Decided(req) =>
    LET expected == ExpectedBehaviorPreferences(req)
        prompt == req.userPrompt
    IN /\ req.behaviorPreferences = expected
       /\ IF expected = Null
          THEN Len(prompt) = Len(TraitKeys) + 2
          ELSE /\ Len(prompt) = Len(TraitKeys) + 3
               /\ prompt[Len(prompt)] = Line("Behavior preferences", 0, expected)
       /\ Ranked(req) => req.result.behaviorPreferences = expected

\* user 2 stores {notes:calm}; the payload's {notes:loud} is returned instead
C13_Witness ==
  /\ Ranked(req)
  /\ req.user.behaviorPreferences = "{notes:calm}"
  /\ req.raw = Payload("object", [k \in {"behaviorPreferences"} |-> Obj("{notes:loud}")])
  /\ req.result.behaviorPreferences = "{notes:loud}"
  /\ req.userPrompt[Len(req.userPrompt)] = Line("Behavior preferences", 0, "{notes:loud}")

\* the interactions of the user a call read, each with its rating replaced
WithRating(userInteractions, score) ==
  [i \in 1..Len(userInteractions) |-> [userInteractions[i] EXCEPT !.score = score]]

\* the user the call read holds an interaction with this vendor that is liked
LikedByUser(r, vendorId) ==
  \E i \in 1..Len(r.user.interactions) :
    /\ r.user.interactions[i].vendorId = vendorId
    /\ r.user.interactions[i].liked

\* C14: for every vendor of a ranking the direct score is 1 exactly when the
\* user's interaction list holds a liked interaction with that vendor and 0
\* otherwise, it weighs 0.6 in the behavior score, and no rating (none, or 1
\* to 5) put in place of the interactions' ratings changes the behavior score.
C14_DirectScoreIsLikedFlag ==
  Ranked(req) =>
    \A k \in 1..Len(req.result.recommendations) :
      LET item == req.result.recommendations[k]
          userInteractions == InteractionSummaries(req.user)
          likedMap == LikedVendorsTraitMap(req.user, vendors)
          vec == getVendorTraitVector(item.vendor)
          direct == IF LikedByUser(req, item.vendor.id) THEN 1 ELSE 0
      IN /\ DirectScore(userInteractions, item.vendor.id) = direct
         /\ item.scores.behaviorScore >= (6 * direct * Scale) \div 10
         /\ item.scores.behaviorScore <= (6 * direct * Scale + 4 * Scale) \div 10
         /\ \A rating \in {NoScore, 1, 2, 3, 4, 5} :
              computeBehaviorScoreForVendor(item.vendor.id,
                                            WithRating(userInteractions, rating),
                                            vec, likedMap)
                = item.scores.behaviorScore

\* a ranking for a user who likes one vendor, dislikes another that they
\* rated, and has no interaction with a third
C14_Witness ==
  /\ Ranked(req)
  /\ \E i, j \in 1..Len(req.user.interactions) :
       /\ req.user.interactions[i].liked
       /\ ~req.user.interactions[j].liked
       /\ req.user.interactions[j].score # NoScore
  /\ \E k \in 1..Len(req.result.recommendations) :
       \A i \in 1..Len(req.user.interactions) :
         req.user.interactions[i].vendorId # req.result.recommendations[k].vendor.id
  /\ \E k \in 1..Len(req.result.recommendations) :
       req.result.recommendations[k].scores.behaviorScore >= (6 * Scale) \div 10

\* the liked interactions of the user a call read whose vendor is in storage
ResolvedLiked(r) ==
  SelectSeq(r.user.interactions,
            LAMBDA i : i.liked /\ \E v \in 1..Len(vendors) : vendors[v].id = i.vendorId)

VendorById(id) == vendors[CHOOSE v \in 1..Len(vendors) : vendors[v].id = id]

\* the average C15 states: the similarities to the liked vendors that resolve,
\* summed and divided by their number; 0 when there is none
AverageOverResolvedLiked(r, vendor) ==
  LET liked == ResolvedLiked(r)
      total == SumSeq([i \in 1..Len(liked) |->
                 computeTraitSimilarity(getVendorTraitVector(vendor),
                                        getVendorTraitVector(VendorById(liked[i].vendorId)))])
  IN IF Len(liked) = 0 THEN 0 ELSE total \div Len(liked)

F64One == F64OfInt(1)

F64Neg(x) == [x EXCEPT !.s = -x.s]

\* x <= y, for two doubles that are not NaN
F64AtMost(x, y) == ~F64Less(y, x)

\* the unit in the last place of 1.0
OneUlp == F64Pow2(-52)

AllZero(values) == \A i \in 1..Len(values) : IsZero(values[i])

BehaviorScored == calc.op = "computeBehaviorScoreForVendor"

ScoredLikedMap == LikedMapOf(calc.userInteractions, calc.a, calc.b)

\* C16: for every interaction list and every vendor with trait scalars in
\* [0, 5], the behaviour score 0.6 * directScore + 0.4 * aggregate computed
\* by computeBehaviorScoreForVendor is a number of [0, 1].
C16_BehaviorScoreInUnitInterval ==
  BehaviorScored =>
    /\ IsFinite(calc.out)
    /\ F64AtMost(F64Zero, calc.out)
    /\ F64AtMost(calc.out, F64One)

\* the user liked the vendor scored and another one, and the score of the
\* vendor scored is above 1
C16_Witness ==
  /\ BehaviorScored
  /\ DirectScore(calc.userInteractions, 1) = 1
  /\ Len(LikedInteractions(calc.userInteractions)) = 2
  /\ F64Less(F64One, calc.out)

\* the user's only liked interaction is with the vendor scored, whose trait
\* vector is not all zeros
OnlyLikedIsScoredVendor ==
  /\ BehaviorScored
  /\ Len(LikedInteractions(calc.userInteractions)) = 1
  /\ LikedInteractions(calc.userInteractions)[1].vendorId = 1
  /\ 1 \in DOMAIN ScoredLikedMap
  /\ ~AllZero(calc.a)

\* C17 as stated: when the user's only liked interaction is with vendor V,
\* V is in the catalog and V's trait vector is not all zeros, the behaviour
\* score computed for V is exactly 1.0.
C17_ScoreOfOnlyLikedVendorIsExactlyOne ==
  OnlyLikedIsScoredVendor => calc.out = F64One

\* C17, amended: in that case the behaviour score computed for V is 1.0 up
\* to the rounding of the cosine: it differs from 1.0 by at most 2^-52.
C17_ScoreOfOnlyLikedVendorIsOneUpToRounding ==
  OnlyLikedIsScoredVendor =>
    /\ IsFinite(calc.out)
    /\ F64AtMost(F64Add(F64One, F64Neg(OneUlp)), calc.out)
    /\ F64AtMost(calc.out, F64Add(F64One, OneUlp))

\* the score of the only liked vendor is below 1.0
C17_Witness == OnlyLikedIsScoredVendor /\ F64Less(calc.out, F64One)

CosineCalled == calc.op = "cosineSimilarity"

\* C18: cosineSimilarity(a, b) returns exactly 0 whenever a or b is empty,
\* a and b differ in length, or either has L2 norm 0; it never returns a
\* NaN result for a pair of finite vectors.
C18_CosineIsZeroOrANumber ==
  CosineCalled =>
    /\ (\/ Len(calc.a) = 0 \/ Len(calc.b) = 0 \/ Len(calc.a) # Len(calc.b)
        \/ AllZero(calc.a) \/ AllZero(calc.b)) => calc.out = F64Zero
    /\ ~IsNaN(calc.out)

\* two finite vectors whose cosineSimilarity is NaN
C18_Witness ==
  /\ CosineCalled
  /\ \A i \in 1..Len(calc.a) : IsFinite(calc.a[i])
  /\ \A i \in 1..Len(calc.b) : IsFinite(calc.b[i])
  /\ IsNaN(calc.out)

NormalizeCalled == calc.op = "normalizeVector"

ZeroVectorKept ==
  /\ Len(calc.out) = Len(calc.a)
  /\ AllZero(calc.a) => AllZero(calc.out)

\* C19 as stated: for all vectors v, normalizeVector(v) has maximum component
\* less than or equal to 1, and normalizeVector of an all-zero vector is the
\* all-zero vector of the same length.
C19_NormalizedComponentsAtMostOne ==
  NormalizeCalled =>
    /\ \A i \in 1..Len(calc.out) : F64AtMost(calc.out[i], F64One)
    /\ ZeroVectorKept

\* C19, amended: for every vector v of finite numbers whose maximum is
\* positive, no component of normalizeVector(v) is above 1 and its maximum
\* is exactly 1; normalizeVector of an all-zero vector is the all-zero vector
\* of the same length.
C19_NormalizedMaxIsOneForPositiveMax ==
  NormalizeCalled =>
    /\ F64Less(F64Zero, MathMax(calc.a)) =>
         /\ \A i \in 1..Len(calc.out) : F64AtMost(calc.out[i], F64One)
         /\ \E i \in 1..Len(calc.out) : calc.out[i] = F64One
    /\ ZeroVectorKept

\* a vector with a positive maximum and a smaller positive component
C19_Witness ==
  /\ NormalizeCalled
  /\ F64Less(F64Zero, MathMax(calc.a))
  /\ \E i \in 1..Len(calc.out) :
       F64Less(F64Zero, calc.out[i]) /\ F64Less(calc.out[i], F64One)

(***************************************************************************)
(* Stored interactions                                                     *)
(***************************************************************************)
SamePair(x, y) == x.userId = y.userId /\ x.vendorId = y.vendorId

OneRecordPerPair ==
  \A i, j \in 1..Len(interactions) :
    SamePair(interactions[i], interactions[j]) => i = j

\* what a stored upsert leaves: one record of the input's pair, holding the
\* input's liked and its score (null when it gives none), and the records of
\* the other pairs as they were
UpsertStored(input) ==
  /\ \E i \in 1..Len(interactions') :
       interactions'[i] =
         Interaction(input.userId, input.vendorId, input.liked,
                     IF input.score = NotGiven THEN NoScore ELSE input.score)
  /\ \A i \in 1..Len(interactions) :
       ~SamePair(interactions[i], input) =>
         \E j \in 1..Len(interactions') : interactions'[j] = interactions[i]
  /\ \A j \in 1..Len(interactions') :
       ~SamePair(interactions'[j], input) =>
         \E i \in 1..Len(interactions) : interactions[i] = interactions'[j]

C22_GeneratorCalledAtMostOnce ==
  /\ [](req.embCalls <= 1)
  /\ [][req'.embCalls > req.embCalls => req.pc = "findUser"]_vars

\* the same call made twice: its one generation was rejected the first time
\* and resolved the second time, before the vendors were ranked
C22_Witness ==
  /\ prev.valid
  /\ prev.call.pc = "threw"
  /\ prev.call.embOutcome = "rejected"
  /\ prev.call.embCalls = 1
  /\ Ranked(req)
  /\ req.embCalls = 1
  /\ Len(req.result.recommendations) > 1

\* what the ranking is when the traits in effect are the stored ones, the
\* embedding in use being the same
RankedWithStoredTraits(r) ==
  StableSort(ScoreVendors(vendors, [r EXCEPT !.traits = r.user.traits]))

RecommendedVendors(r) ==
  [k \in 1..Len(r.result.recommendations) |-> r.result.recommendations[k].vendor]

\* C27: for an existing user and valid arguments the recommendations list
\* holds every vendor of storage exactly once (none filtered out, duplicated
\* or added), the vendors the user has liked or disliked included.
C27_EveryVendorExactlyOnce ==
  Ranked(req) =>
    /\ Len(req.result.recommendations) = Len(vendors)
    /\ \A v \in 1..Len(vendors) :
         Cardinality({k \in 1..Len(req.result.recommendations) :
                        RecommendedVendors(req)[k] = vendors[v]}) = 1

\* a ranking for a user who has liked one of the vendors and disliked another
C27_Witness ==
  /\ Ranked(req)
  /\ \E i, j \in 1..Len(req.user.interactions) :
       /\ req.user.interactions[i].liked
       /\ ~req.user.interactions[j].liked
       /\ \E k, l \in 1..Len(req.result.recommendations) :
            /\ RecommendedVendors(req)[k].id = req.user.interactions[i].vendorId
            /\ RecommendedVendors(req)[l].id = req.user.interactions[j].vendorId

\* C28: for a userId storage does not hold, computeRecommendations returns
\* the not-found result whatever the adjustments payload is: a malformed
\* payload gives no validation error, the embedding generator is not called
\* and the vendor list is not loaded.
C28_UnknownUserBeforeParsing ==
  (req.userId \notin DOMAIN users /\ req.pc # "idle") =>
    /\ req.pc \in {"findUser", "returned"}
    /\ req.error = ""
    /\ req.embCalls = 0
    /\ req.embOutcome = "none"
    /\ ~req.scored
    /\ req.adjustments = IdleRequest.adjustments
    /\ req.pc = "returned" =>
         req.result.kind = "null" /\ req.result.recommendations = <<>>

\* the not-found result of a call whose payload is not JSON
C28_Witness ==
  /\ req.userId \notin DOMAIN users
  /\ req.pc = "returned"
  /\ req.result.kind = "null"
  /\ ~req.testMode
  /\ req.raw = Payload("notJson", EmptyObject)

(***************************************************************************)
(* testMode over a stored embedding that is up to date                     *)
(***************************************************************************)
\* the prompt UsersService builds from the user as read by the call
StoredUserPrompt(r) ==
  buildUserPrompt(r.user.name, r.user.traits, r.user.behaviorPreferences,
                  r.user.isTestUser)

\* a ranking in test mode without adjustments, for a user who is no test user
\* and whose stored embedding UsersService produced from the stored data
TestModeOverCurrentEmbedding(r) ==
  /\ Ranked(r)
  /\ r.testMode
  /\ ~RawSupplied(r.raw)
  /\ ~r.user.isTestUser
  /\ r.user.embedding = Embed(StoredUserPrompt(r))

\* the same call with testMode = false, resolved over the same user
WithoutTestMode(r) ==
  ResolveFoundUser(NewCall(r.userId, FALSE, r.raw, r.debug), r.user)

\* C29: for a user with isTestUser = false whose stored embedding UsersService
\* produced from its current traits and behaviorPreferences, and a
\* deterministic generator, computeRecommendations with testMode = true and no
\* adjustments builds the same prompt as the stored one, and returns the same
\* scores in the same order as with testMode = false.
C29_TestModeSameAsStored ==
  TestModeOverCurrentEmbedding(req) =>
    /\ req.userPrompt = StoredUserPrompt(req)
    /\ req.embCalls = 1
    /\ WithoutTestMode(req).embCalls = 0
    /\ req.result.recommendations
         = StableSort(ScoreVendors(vendors, WithoutTestMode(req)))

\* such a ranking, of a user whose traits UsersService.updateTraits has
\* stored, with a vendor of a positive embedding score
C29_Witness ==
  /\ TestModeOverCurrentEmbedding(req)
  /\ req.user.traits # SeedUsers[req.userId].traits
  /\ \E k \in 1..Len(req.result.recommendations) :
       req.result.recommendations[k].scores.embeddingScore > 0

(***************************************************************************)
(* The outcomes of the embedding child process                             *)
(***************************************************************************)
\* C24: for every outcome of the embedding child process the promise
\* returned by generateEmbedding settles: it resolves with the parsed vector
\* for exit code 0 with parseable output only, and rejects with an error in
\* every other case (unparseable output, a non-zero exit code, a spawn
\* failure or a stream error), without an unhandled process-fatal error.
\* Stated for the awaiting call: after the generator's outcome the call has
\* gone on with the parsed vector or has rejected, and the process is up.
C24_GenerateEmbeddingSettles ==
  /\ req.embOutcome = "resolved" =>
       /\ req.pc \in {"findVendors", "returned"}
       /\ req.userEmbedding = Embed(req.userPrompt)
  /\ req.embOutcome = "rejected" =>
       /\ req.pc = "threw"
       /\ req.error \in {"Failed to generate embedding",
                         "Failed to parse embedding output"}
  /\ req.embOutcome = "spawnError" => req.pc = "threw"
  /\ ProcessUp

\* the child could not be spawned: the process is down and the promise of
\* generateEmbedding has not settled
C24_Witness ==
  /\ req.embOutcome = "spawnError"
  /\ req.pc = "crashed"
  /\ req.error = ""
  /\ req.embCalls = 1

(***************************************************************************)
(* The answers of the endpoints (EndpointSpec)                             *)
(***************************************************************************)
\* a recommendations endpoint has answered a request for a user that storage
\* does not hold
UnknownUserAnswered ==
  /\ resp.recommendations # NoAnswer
  /\ req.pc = "returned"
  /\ req.result.kind = "null"

\* what the endpoint answers when the adjustments are malformed
MalformedAdjustmentsAnswer ==
  RecommendationsAnswer([req EXCEPT !.pc = "threw", !.error = "Invalid adjustments"])

\* C21: at the recommendations endpoints an unknown user id is surfaced to the
\* client as a not-found outcome, which is distinct from the client-input
\* outcome produced for malformed adjustments.
C21_UnknownUserIsNotFound ==
  UnknownUserAnswered =>
    /\ resp.recommendations.exception = "NotFoundException"
    /\ resp.recommendations.exception # MalformedAdjustmentsAnswer.exception

\* the unknown user is answered with the exception that malformed adjustments
\* are answered with
C21_Witness ==
  /\ UnknownUserAnswered
  /\ resp.recommendations.exception = "BadRequestException"
  /\ resp.recommendations.message = "User not found"
  /\ MalformedAdjustmentsAnswer.exception = "BadRequestException"

UnknownUserOrVendor(body) ==
  BodyValid(body) /\ ~(body.userId \in DOMAIN users /\ VendorExists(body.vendorId))

\* C30: upsertInteraction for a userId or vendorId that does not exist
\* returns null and creates or changes no interaction record, and the
\* interactions endpoint reports it as a 'User or vendor not found' error.
C30_UnknownUserOrVendorIsReported ==
  [][\A body \in PostedBodies :
       (InteractionsControllerUpsert(body) /\ UnknownUserOrVendor(body)) =>
         /\ UpsertReturn(body).kind = "null"
         /\ interactions' = interactions
         /\ writes' = writes
         /\ resp'.interactions =
              Answer("interactions", "BadRequestException", "User or vendor not found")]_vars

\* the endpoint has reported an unknown user or vendor, after it has stored
\* an interaction
C30_Witness ==
  /\ resp.interactions.message = "User or vendor not found"
  /\ writes > 0
  /\ interactions # SeedInteractions

(***************************************************************************)
(* Two concurrent calls (ConcurrentSpec)                                   *)
(***************************************************************************)
\* lines 325-421 for a call that has its embedding
RankAlone(r) ==
  [r EXCEPT !.pc = "returned", !.scored = TRUE,
            !.result = RankedResult(r, StableSort(ScoreVendors(vendors, r)))]

\* the generator's outcome for r, applied to the call r1 that awaits it
GenerateAlone(r, r1) ==
  IF r.embOutcome = "resolved"
  THEN RankAlone([r1 EXCEPT !.pc = "findVendors", !.embOutcome = "resolved",
                            !.userEmbedding = Embed(r1.userPrompt)])
  ELSE [r1 EXCEPT !.pc = "threw", !.embOutcome = "rejected", !.error = r.error]

AloneFrom(r, r1) ==
  IF r1.pc = "generating" THEN GenerateAlone(r, r1)
  ELSE IF r1.pc = "findVendors" THEN RankAlone(r1)
  ELSE r1

\* the settled call that r's arguments give when the call runs alone over the
\* storage, the generator's outcome being that of r
RunAlone(r) ==
  AloneFrom(r, ResolveRequest(NewCall(r.userId, r.testMode, r.raw, r.debug),
                              FindUniqueUser(r.userId)))

InFlight(r) == r.pc \in {"findUser", "generating", "findVendors"}

\* C23: for any interleaving of two concurrent computeRecommendations
\* requests over a storage that is not written meanwhile, each request
\* returns the result it returns when run alone: a settled request is the one
\* its arguments give alone (the other's adjustments, embedding or weights are
\* not in it), and a request in flight is not ended by the other.
C23_ConcurrentRequestsAreIndependent ==
  /\ Finished(req) => req = RunAlone(req)
  /\ Finished(req2) => req2 = RunAlone(req2)
  /\ InFlight(req) => req2.pc # "crashed"
  /\ InFlight(req2) => req.pc # "crashed"

\* a call that uses the stored embedding, and would return its ranking alone,
\* is in flight when the other call's generator cannot be spawned
C23_Witness ==
  /\ InFlight(req)
  /\ req.pc = "findVendors"
  /\ req.embCalls = 0
  /\ req2.pc = "crashed"
  /\ req2.userId # req.userId

(***************************************************************************)
(* The stored embedding after UsersService operations (UsersSpec)          *)
(***************************************************************************)
OpsCompleted == \A o \in OpIds : ops[o].pc \in {"idle", "done", "threw"}

EmbeddingUpToDate(user) ==
  user.embedding = Embed(buildUserPrompt(user.name, user.traits,
                                         user.behaviorPreferences, user.isTestUser))

\* C25: after any interleaving of completed UsersService.create, updateTraits
\* and updateBehaviorPreferences operations on a user, concurrent ones
\* included, the user's stored embedding is the one generated from the prompt
\* built from the user's stored name, traits, behaviorPreferences and
\* isTestUser flag.
C25_StoredEmbeddingIsOfStoredData ==
  OpsCompleted => \A u \in DOMAIN users : EmbeddingUpToDate(users[u])

\* updateTraits and updateBehaviorPreferences of user 1 have both returned,
\* each having read the user before the other wrote, and the stored embedding
\* is not that of the stored traits and behaviour preferences
C25_Witness ==
  /\ OpsCompleted
  /\ \A o \in OpIds : ops[o].returned = "user" /\ ops[o].id = 1
  /\ ops["first"].kind = "updateTraits"
  /\ ops["second"].kind = "updateBehaviorPreferences"
  /\ users[1].traits = ops["first"].traits
  /\ users[1].behaviorPreferences = ops["second"].behaviorPreferences
  /\ ~EmbeddingUpToDate(users[1])

====
